---- MODULE Spec2Model ----
(***************************************************************************)
(* A model of the job scheduler of InnoFranceApp                           *)
(* (src/inno_france_app/api/queue.py, class PipelineQueue) and of the      *)
(* part of the state store it reads and writes (src/inno_france_app/db.py).*)
(*                                                                         *)
(* One action is one run of a handler between two suspension points of the *)
(* asyncio event loop: the public methods are synchronous (or hold no      *)
(* await that suspends), and _run_job suspends only in its polling sleep   *)
(* and inside pipeline.run.                                                *)
(***************************************************************************)
EXTENDS Integers, Sequences, FiniteSets, TLC

VARIABLES
    constructed,          \* PipelineQueue.__init__ has run (_load_state done)
    objs,                 \* job_id -> the PipelineJob object (kept while a task holds it)
    registry,             \* the keys of self._jobs
    running_by_user,      \* self._running_by_user
    queue_order_by_user,  \* self._queue_order_by_user
    settings_by_user,     \* self._settings_by_user (a dict: users get an entry lazily)
    task,                 \* job_id -> position of the job's _run_job task
    future,               \* job_id -> state of PipelineJob._speaker_future
    save_task,            \* self._save_task: "idle" (None or done) or "running"
    save_pending,         \* self._save_pending
    db_jobs,              \* table pipeline_jobs: job_id -> persisted record
    db_settings,          \* table settings: user_id -> persisted record
    db_queue,             \* table queue_order: user_id -> list of job ids
    ret,                  \* outcome of the latest call that can raise ValueError
    streams,              \* subscriber -> the state of its stream_events generator
    writer,               \* the thread of the write in flight (_write_state_payload)
    speaker_clips         \* argument and result of _build_speaker_clip_candidates

vars == <<constructed, objs, registry, running_by_user, queue_order_by_user,
          settings_by_user, task, future, save_task, save_pending,
          db_jobs, db_settings, db_queue, ret, streams, writer,
          speaker_clips>>

memVars == <<objs, registry, running_by_user, queue_order_by_user,
             settings_by_user, task, future>>
dbVars == <<db_jobs, db_settings, db_queue>>
saveVars == <<save_task, save_pending, writer>>

----------------------------------------------------------------------------
(* Bounds of the model. *)

NumUsers == 2
MaxJobs == 3
MaxIdsLen == 3
MaxDistinctLen == 2
MaxRequested == 2
FullSlack == 2
MaxStored == 2
MaxReorderJobs == 2
MaxSpeakerJobs == 2
MaxEvents == 2
TranslateCompletedAt == 2
MaxRunJobs == 2
MaxRunIdsLen == 2
MaxSubscribers == 2
MaxStreamJobs == 1
MaxPersistJobs == 2

MaxRoundTripJobs == 1
MaxMetaJobs == 2

MaxClipTime == 2
MaxSegments == 3
ClipMinDuration == 0
ClipMaxDuration == 2
ClipMaxCandidates == 2

MaxDirectWrites == 1

MaxPickTime == 3
PickMinDuration == 2
PickMaxDuration == 2

(* Constants of the program. *)

MAX_QUEUED == 10
MinConcurrent == 1
MaxConcurrent == 5
DefaultMaxConcurrent == 1
DefaultParallel == FALSE

Users == 1..NumUsers

\* Python's None, for the optional string-valued fields.
NONE == "<none>"
RestartError == "Server restarted before completion"

\* job.result: None, or a dict given by the set of its keys.  FullResult is the
\* dict _run_job assigns on success.
NoResult == {NONE}
FullResult == {"translated_path", "summary_path", "audio_path"}

\* The end-of-stream item (None) of a progress queue.
EndOfStream == [seq |-> 0, file |-> FALSE]

Statuses == {"queued", "running", "completed", "failed"}

----------------------------------------------------------------------------
(* Helpers on lists and sets. *)

Max(S) == CHOOSE x \in S : \A y \in S : y <= x

Range(s) == {s[i] : i \in DOMAIN s}

SeqsUpTo(S, n) == UNION {[1..k -> S] : k \in 0..n}

\* list.remove(x): drops the first occurrence of x only.
FirstIndex(s, x) == CHOOSE i \in DOMAIN s : s[i] = x /\ \A k \in 1..(i-1) : s[k] # x

ListRemove(s, x) ==
    IF x \in Range(s)
    THEN LET i == FirstIndex(s, x)
         IN  [k \in 1..(Len(s) - 1) |-> IF k < i THEN s[k] ELSE s[k + 1]]
    ELSE s

\* queue[:n]
Prefix(s, n) == IF n <= 0 THEN <<>> ELSE SubSeq(s, 1, IF n < Len(s) THEN n ELSE Len(s))

Extend(f, k, v) == [x \in DOMAIN f \cup {k} |-> IF x = k THEN v ELSE f[x]]

Clamp(n) ==
    IF n < MinConcurrent THEN MinConcurrent
    ELSE IF n > MaxConcurrent THEN MaxConcurrent ELSE n

----------------------------------------------------------------------------
(* Settings and admission. *)

DefaultSettings ==
    [parallel_enabled |-> DefaultParallel, max_concurrent |-> Clamp(DefaultMaxConcurrent)]

\* _settings_for_user: the value returned ...
SettingsFor(u) ==
    IF u \in DOMAIN settings_by_user THEN settings_by_user[u] ELSE DefaultSettings

\* ... and the dict after the call (the entry is created on first access).
SettingsTouched(u) ==
    [v \in DOMAIN settings_by_user \cup {u} |->
        IF v = u THEN SettingsFor(u) ELSE settings_by_user[v]]

\* Mutants of _slots_available: a limit tested with <= instead of <, and one
\* running set counted for all users.
SlotsAvailableOffByOne(u) ==
    LET settings == SettingsFor(u)
        n == Cardinality(running_by_user[u])
    IN  IF settings.parallel_enabled
        THEN settings.max_concurrent - n + 1
        ELSE IF n > 0 THEN 2 - n ELSE 1

SlotsAvailableGlobal(u) ==
    LET settings == SettingsFor(u)
        n == Cardinality(UNION {running_by_user[v] : v \in Users})
    IN  IF settings.parallel_enabled
        THEN settings.max_concurrent - n
        ELSE IF n > 0 THEN 1 - n ELSE 1

\* Mutant of _slots_available: the parallel_enabled flag is not consulted.
SlotsAvailableIgnoringFlag(u) ==
    SettingsFor(u).max_concurrent - Cardinality(running_by_user[u])

SlotsAvailable(u) ==
    LET settings == SettingsFor(u)
        n == Cardinality(running_by_user[u])
    IN  IF settings.parallel_enabled
        THEN settings.max_concurrent - n
        ELSE IF n > 0 THEN 1 - n ELSE 1

CanStart(j) ==
    LET u == objs[j].user_id
        slots == SlotsAvailable(u)
        queue == queue_order_by_user[u]
    IN  IF slots <= 0 THEN FALSE
        ELSE IF j \notin Range(queue) THEN TRUE
        ELSE j \in Range(Prefix(queue, IF SettingsFor(u).parallel_enabled THEN slots ELSE 1))

QueuedCount(u) ==
    Cardinality({j \in registry :
        objs[j].status \in {"queued", "running"} /\ objs[j].user_id = u})

\* Mutant of enqueue's limit test: > instead of >=.
QueueFullStrict(u) == QueuedCount(u) > MAX_QUEUED

QueueFull(u) == QueuedCount(u) >= MAX_QUEUED

----------------------------------------------------------------------------
(* Persistence: the coalescing flags and the store. *)

\* No write is in flight.  A write in flight is in phase "jobs" (between two
\* jobs of its loop over self._jobs.values(); `used` is the size of the dict
\* its iterator remembers, `visited` the jobs it has passed) or in phase
\* "saving" (it holds the payload of job `cur` and has not stored it yet).
\* `direct` counts the writes a caller without a running event loop performs
\* itself, and `direct_used` is the size of the registry when the last of
\* them started.
NoWriter == [phase |-> "none", used |-> 0, visited |-> {}, cur |-> 0, payload |-> <<>>,
             direct |-> 0, direct_used |-> 0]

\* The thread of the save task holds no write.
ThreadIdle == [NoWriter EXCEPT !.direct = writer.direct,
                               !.direct_used = writer.direct_used]

\* _save_state, called on the event loop.
SaveState ==
    /\ save_task' = "running"
    /\ save_pending' = (IF save_task = "running" THEN TRUE ELSE save_pending)
    /\ UNCHANGED writer

\* Timestamps: "t" is a datetime in memory, "tZ" its stored text
\* (isoformat() + "Z"); any other stored text does not parse.
IsoFormat(t) == IF t = NONE THEN NONE ELSE "tZ"

ParseDatetime(value) == IF value = "tZ" THEN "t" ELSE NONE

\* A JSON column holds no text (SQL NULL, <<>>) or the text of one value;
\* json.dumps wraps the value in its text and json.loads takes it out again.
SqlNull == <<>>

JsonDumps(value) == <<value>>

JsonLoads(text) == text[1]

\* save_job: result_json is NULL for a result of None and the JSON text of
\* the result otherwise.
ResultJson(result) == IF result = NoResult THEN SqlNull ELSE JsonDumps(result)

\* load_jobs: a NULL (or empty) result_json loads as None.
LoadedResult(result_json) ==
    IF result_json = SqlNull THEN NoResult ELSE JsonLoads(result_json)

\* save_job: tags_json is the JSON text of the tag list ...
TagsJson(tags) == JsonDumps(tags)

\* ... and load_jobs reads a NULL tags_json as the empty list.
LoadedTags(tags_json) == IF tags_json = SqlNull THEN <<>> ELSE JsonLoads(tags_json)

\* save_steps: the rows of the job, deleted and inserted again in list
\* order, so that their ids increase along the list.
StepRows(steps) == {[id |-> k, event |-> steps[k]] : k \in 1..Len(steps)}

\* load_jobs: the rows of the job in the order of their ids (and, as a
\* mutant, in the opposite order).
LoadedStepsReversed(rows) ==
    [k \in 1..Cardinality(rows) |->
        (CHOOSE r \in rows :
            Cardinality({q \in rows : q.id > r.id}) = k - 1).event]

LoadedSteps(rows) ==
    [k \in 1..Cardinality(rows) |->
        (CHOOSE r \in rows :
            Cardinality({q \in rows : q.id < r.id}) = k - 1).event]

\* PipelineJob.to_state followed by AppDatabase.save_job: the persisted columns.
ToState(job) ==
    [user_id |-> job.user_id, status |-> job.status, error |-> job.error,
     started_at |-> IsoFormat(job.started_at),
     finished_at |-> IsoFormat(job.finished_at),
     speaker_required |-> job.speaker_required,
     speaker_submitted |-> job.speaker_submitted,
     note |-> job.note, custom_name |-> job.custom_name,
     tags_json |-> TagsJson(job.tags),
     published |-> IF job.published THEN 1 ELSE 0,
     step_rows |-> StepRows(job.steps), result_json |-> ResultJson(job.result)]

\* AppDatabase.load_jobs followed by PipelineJob.from_state
FromState(payload) ==
    [user_id |-> payload.user_id, status |-> payload.status, error |-> payload.error,
     started_at |-> ParseDatetime(payload.started_at),
     finished_at |-> ParseDatetime(payload.finished_at),
     speaker_required |-> payload.speaker_required,
     speaker_submitted |-> payload.speaker_submitted,
     note |-> payload.note, custom_name |-> payload.custom_name,
     tags |-> LoadedTags(payload.tags_json),
     published |-> payload.published # 0,
     steps |-> LoadedSteps(payload.step_rows),
     result |-> LoadedResult(payload.result_json),
     has_progress_queue |-> FALSE, progress_queue |-> <<>>, emitted |-> 0]

\* _write_state_payload: upserts of every job, settings entry and queue order.
WrittenJobs ==
    [j \in DOMAIN db_jobs \cup registry |->
        IF j \in registry THEN ToState(objs[j]) ELSE db_jobs[j]]

WrittenSettings ==
    [u \in DOMAIN db_settings \cup DOMAIN settings_by_user |->
        IF u \in DOMAIN settings_by_user THEN settings_by_user[u] ELSE db_settings[u]]

WrittenQueue == [u \in Users |-> queue_order_by_user[u]]

\* _save_state_async: one write of the loop completes.
SaveStateAsync ==
    /\ constructed
    /\ save_task = "running"
    /\ db_jobs' = WrittenJobs
    /\ db_settings' = WrittenSettings
    /\ db_queue' = WrittenQueue
    /\ IF save_pending
       THEN save_pending' = FALSE /\ save_task' = "running"
       ELSE save_pending' = FALSE /\ save_task' = "idle"
    /\ UNCHANGED writer
    /\ UNCHANGED <<constructed, speaker_clips, streams, memVars, ret>>

(* The same write, step by step.  _write_state_payload runs in a worker     *)
(* thread (asyncio.to_thread) while the event loop goes on: it reads the    *)
(* live registry and the live jobs.                                         *)

\* The task created by _save_state starts, or the loop of _save_state_async
\* goes round: to_thread starts the thread, which creates its iterator over
\* self._jobs.values().
WriteStart ==
    /\ constructed
    /\ save_task = "running" /\ writer.phase = "none"
    /\ writer' = [ThreadIdle EXCEPT !.phase = "jobs", !.used = Cardinality(registry)]
    /\ UNCHANGED <<constructed, speaker_clips, streams, memVars, save_task, save_pending, dbVars, ret>>

\* Mutant of _save_state_async: after an exception the task never ends.
WriteFailedTaskStuck ==
    /\ writer' = ThreadIdle
    /\ UNCHANGED <<constructed, speaker_clips, streams, memVars, save_task, save_pending, dbVars, ret>>

\* The write ends with an exception: `except Exception: return` ends the task
\* and leaves _save_pending as it is.
WriteFailed ==
    /\ save_task' = "idle"
    /\ writer' = ThreadIdle
    /\ UNCHANGED <<constructed, speaker_clips, streams, memVars, save_pending, dbVars, ret>>

\* The jobs are done: the thread stores the settings and the queue orders and
\* returns, and _save_state_async looks at _save_pending.
WriteFinished ==
    /\ db_settings' = WrittenSettings
    /\ db_queue' = WrittenQueue
    /\ writer' = ThreadIdle
    /\ save_pending' = FALSE
    /\ save_task' = IF save_pending THEN "running" ELSE "idle"
    /\ UNCHANGED <<constructed, speaker_clips, streams, memVars, db_jobs, ret>>

\* The thread asks its iterator for the next job: RuntimeError ("dictionary
\* changed size during iteration") when the registry has another size than at
\* the start of the loop, the end of the loop after the last job, and else
\* job.to_state() of the next job (the registry keeps insertion order, which is
\* the order of the ids).
WriteNextJob ==
    /\ constructed
    /\ writer.phase = "jobs"
    /\ LET rest == registry \ writer.visited
       IN  IF Cardinality(registry) # writer.used THEN WriteFailed
           ELSE IF rest = {} THEN WriteFinished
           ELSE LET j == CHOOSE x \in rest : \A y \in rest : x <= y
                IN  /\ writer' = [writer EXCEPT !.phase = "saving", !.cur = j,
                                                !.visited = @ \cup {j},
                                                !.payload = <<ToState(objs[j])>>]
                    /\ UNCHANGED <<constructed, speaker_clips, streams, memVars, save_task,
                                   save_pending, dbVars, ret>>

\* save_job and save_steps of the payload the thread holds.
WriteSaveJob ==
    /\ constructed
    /\ writer.phase = "saving"
    /\ db_jobs' = Extend(db_jobs, writer.cur, writer.payload[1])
    /\ writer' = [writer EXCEPT !.phase = "jobs", !.payload = <<>>]
    /\ UNCHANGED <<constructed, speaker_clips, streams, memVars, save_task, save_pending,
                   db_settings, db_queue, ret>>

\* A statement of the write raises (the database is locked, the disk is full).
WriteRaises ==
    /\ constructed
    /\ writer.phase \in {"jobs", "saving"}
    /\ WriteFailed

----------------------------------------------------------------------------
(* The scheduler's operations. *)

NewJobId == IF DOMAIN objs = {} THEN 1 ELSE Max(DOMAIN objs) + 1

NewJob(u, manual) ==
    [user_id |-> u, status |-> "queued", error |-> NONE,
     started_at |-> NONE, finished_at |-> NONE,
     speaker_required |-> manual, speaker_submitted |-> FALSE,
     note |-> NONE, custom_name |-> NONE, tags |-> <<>>, published |-> FALSE,
     steps |-> <<>>, result |-> NoResult,
     has_progress_queue |-> TRUE, progress_queue |-> <<>>, emitted |-> 0]

\* enqueue: `limit` bounds the number of job ids the model hands out.
Enqueue(u, manual, limit) ==
    /\ constructed
    /\ NewJobId <= limit
    /\ IF QueueFull(u)
       THEN /\ ret' = "queue_full"
            /\ UNCHANGED <<constructed, speaker_clips, streams, memVars, saveVars, dbVars>>
       ELSE LET j == NewJobId
            IN  /\ objs' = Extend(objs, j, NewJob(u, manual))
                /\ future' = Extend(future, j, IF manual THEN "pending" ELSE "none")
                /\ task' = Extend(task, j, "start")
                /\ registry' = registry \cup {j}
                /\ queue_order_by_user' =
                       [queue_order_by_user EXCEPT ![u] = Append(@, j)]
                /\ SaveState
                /\ ret' = "ok"
                /\ UNCHANGED <<constructed, speaker_clips, streams, running_by_user, settings_by_user, dbVars>>

\* The body of _run_job's `async with self._lock` block and what follows a
\* successful admission, up to the await of pipeline.run.
Admit(j) ==
    LET u == objs[j].user_id
    IN  /\ settings_by_user' = SettingsTouched(u)
        /\ IF CanStart(j)
           THEN /\ queue_order_by_user' =
                       [queue_order_by_user EXCEPT ![u] = ListRemove(@, j)]
                /\ running_by_user' = [running_by_user EXCEPT ![u] = @ \cup {j}]
                /\ objs' = [objs EXCEPT ![j].status = "running", ![j].started_at = "t"]
                /\ task' = [task EXCEPT ![j] = "run"]
                /\ SaveState
           ELSE /\ task' = [task EXCEPT ![j] = "wait"]
                /\ UNCHANGED <<queue_order_by_user, running_by_user, objs, saveVars>>
        /\ UNCHANGED <<constructed, speaker_clips, streams, registry, future, dbVars, ret>>

\* _run_job from its first line: the registry lookup and the first admission check.
RunJobBegin(j) ==
    /\ j \in DOMAIN task /\ task[j] = "start"
    /\ IF j \in registry
       THEN Admit(j)
       ELSE /\ task' = [task EXCEPT ![j] = "done"]
            /\ UNCHANGED <<constructed, speaker_clips, streams, objs, registry, running_by_user,
                           queue_order_by_user, settings_by_user, future,
                           saveVars, dbVars, ret>>

\* One more turn of the polling loop, after asyncio.sleep(0.5).
RunJobPoll(j) ==
    /\ j \in DOMAIN task /\ task[j] = "wait"
    /\ Admit(j)

\* The end of _run_job: the outcome of pipeline.run, the except and the finally
\* block, which also puts the end-of-stream item into the job's progress queue.
Finished(j, status, error, result) ==
    LET u == objs[j].user_id
    IN  /\ objs' = [objs EXCEPT ![j].status = status, ![j].error = error,
                                 ![j].result = result,
                                 ![j].finished_at = "t",
                                 ![j].progress_queue = Append(@, EndOfStream)]
        /\ task' = [task EXCEPT ![j] = "done"]
        /\ running_by_user' = [running_by_user EXCEPT ![u] = @ \ {j}]
        /\ queue_order_by_user' = [queue_order_by_user EXCEPT ![u] = ListRemove(@, j)]
        /\ SaveState
        /\ UNCHANGED <<constructed, speaker_clips, streams, registry, settings_by_user, future, dbVars, ret>>

\* The except and finally blocks: the result is left as it is.
Finalize(j, status, error) == Finished(j, status, error, objs[j].result)

\* pipeline.run can return: the job has no manual speaker step, or its input came.
RunCanReturn(j) ==
    /\ j \in DOMAIN task
    /\ \/ task[j] = "run" /\ ~objs[j].speaker_required
       \/ task[j] = "resumed"

\* pipeline.run returns and no S3 client is enabled: lines 424-548 and the
\* finally block run without a blocking call.
RunCompletes(j) ==
    /\ RunCanReturn(j)
    /\ Finished(j, "completed", objs[j].error, FullResult)

\* Mutant of the except block: the error text is not recorded.
RunRaisesWithNoError(j, e) ==
    /\ j \in DOMAIN task
    /\ task[j] \in {"run", "resumed"}
    /\ Finalize(j, "failed", objs[j].error)

\* pipeline.run raises exception e (before the speaker step, or after the input
\* arrived); str(e) is recorded, and it is "" for an exception without arguments.
RunRaisesWith(j, e) ==
    /\ j \in DOMAIN task
    /\ task[j] \in {"run", "resumed"}
    /\ Finalize(j, "failed", e)

RunRaises(j) == RunRaisesWith(j, "boom")

\* pipeline.run returns and an S3 client is enabled: line 424 sets the status,
\* and the task goes into the blocking upload_file calls of lines 442-485.
RunReturns(j) ==
    /\ RunCanReturn(j)
    /\ objs' = [objs EXCEPT ![j].status = "completed"]
    /\ task' = [task EXCEPT ![j] = "uploading"]
    /\ UNCHANGED <<constructed, speaker_clips, streams, registry, running_by_user, queue_order_by_user,
                   settings_by_user, future, saveVars, dbVars, ret>>

\* Every upload returned: the result is stored and the finally block runs.
UploadsDone(j) ==
    /\ j \in DOMAIN task /\ task[j] = "uploading"
    /\ Finished(j, "completed", objs[j].error, FullResult)

\* An upload raises e (S3Client.upload_file catches nothing): the except and
\* finally blocks run.
UploadRaises(j, e) ==
    /\ j \in DOMAIN task /\ task[j] = "uploading"
    /\ Finalize(j, "failed", e)

\* The event loop is inside a blocking upload_file call of some job's task.
Uploading == \E j \in DOMAIN task : task[j] = "uploading"

\* The StepEvent the run's k-th callback builds; `file` tells whether it is the
\* completed translate step, whose detail names the translated file.
StepEvent(k, file) == [seq |-> k, file |-> file]

\* The result after a callback that reports a file: `job.result or {}` plus the
\* translated path.
WithTranslatedPath(result) ==
    (IF result = NoResult THEN {} ELSE result) \cup {"translated_path"}

\* Mutant of on_progress: the new event is put in front of the log.
OnProgressPrepending(j, file) ==
    LET ev == StepEvent(objs[j].emitted + 1, file)
    IN  /\ j \in DOMAIN task /\ task[j] \in {"run", "resumed"}
        /\ objs[j].emitted < MaxEvents
        /\ objs' = [objs EXCEPT ![j].steps = <<ev>> \o @,
                                 ![j].progress_queue = Append(@, ev),
                                 ![j].emitted = @ + 1]
        /\ SaveState
        /\ UNCHANGED <<constructed, speaker_clips, streams, registry, running_by_user, queue_order_by_user,
                       settings_by_user, task, future, dbVars, ret>>

\* Mutant of on_progress: every callback stores the full result.
OnProgressFullResult(j, file) ==
    LET ev == StepEvent(objs[j].emitted + 1, file)
    IN  /\ j \in DOMAIN task /\ task[j] \in {"run", "resumed"}
        /\ objs[j].emitted < MaxEvents
        /\ objs' = [objs EXCEPT ![j].steps = Append(@, ev),
                                 ![j].result = FullResult,
                                 ![j].progress_queue = Append(@, ev),
                                 ![j].emitted = @ + 1]
        /\ SaveState
        /\ UNCHANGED <<constructed, speaker_clips, streams, registry, running_by_user, queue_order_by_user,
                       settings_by_user, task, future, dbVars, ret>>

\* on_progress, called by pipeline.run on the event loop: the event goes into
\* the log of a job still in the registry, and into the progress queue always.
OnProgress(j, file) ==
    LET ev == StepEvent(objs[j].emitted + 1, file)
    IN  /\ j \in DOMAIN task /\ task[j] \in {"run", "resumed"}
        /\ objs[j].emitted < MaxEvents
        /\ IF j \in registry
           THEN /\ objs' = [objs EXCEPT
                               ![j].steps = Append(@, ev),
                               ![j].result = IF file THEN WithTranslatedPath(@) ELSE @,
                               ![j].progress_queue = Append(@, ev),
                               ![j].emitted = @ + 1]
                /\ SaveState
           ELSE /\ objs' = [objs EXCEPT ![j].progress_queue = Append(@, ev),
                                        ![j].emitted = @ + 1]
                /\ UNCHANGED saveVars
        /\ UNCHANGED <<constructed, speaker_clips, streams, registry, running_by_user, queue_order_by_user,
                       settings_by_user, task, future, dbVars, ret>>

\* The speakers endpoints of app.py: they refuse a job without a result, and
\* otherwise call update_job_result with the regenerated speaker files.
UpdateJobResult(j) ==
    /\ constructed
    /\ IF j \notin registry THEN
            ret' = "job_not_found" /\ UNCHANGED <<memVars, saveVars>>
       ELSE IF objs[j].result \in {NoResult, {}} THEN
            ret' = "result_not_available" /\ UNCHANGED <<memVars, saveVars>>
       ELSE /\ objs' = [objs EXCEPT ![j].result = @ \cup {"speakers_path"}]
            /\ SaveState
            /\ ret' = "ok"
            /\ UNCHANGED <<registry, running_by_user, queue_order_by_user,
                           settings_by_user, task, future>>
    /\ UNCHANGED <<constructed, speaker_clips, streams, dbVars>>

(* A result entry is a key with the value the run gave it, named by the     *)
(* key, or a key with a value a later call supplies, named "<key>:new".     *)
NewValued == {"speakers_path:new", "audio_path:new"}

KeyOf(entry) ==
    IF entry = "speakers_path:new" THEN "speakers_path"
    ELSE IF entry = "audio_path:new" THEN "audio_path"
    ELSE entry

Keys(entries) == {KeyOf(e) : e \in entries}

\* A set of entries is a dict when no key has two values.
IsDict(entries) == \A a, b \in entries : KeyOf(a) = KeyOf(b) => a = b

\* dict.update, and as a mutant an assignment of the updates.
DictUpdateReplacing(result, updates) == updates

DictUpdate(result, updates) ==
    {e \in result : KeyOf(e) \notin Keys(updates)} \cup updates

\* update_job_result itself: ValueError for an id that is not in the registry.
UpdateJobResultWith(j, updates) ==
    /\ constructed
    /\ IF j \notin registry THEN
            ret' = "job_not_found" /\ UNCHANGED <<memVars, saveVars>>
       ELSE /\ objs' = [objs EXCEPT ![j].result =
                            DictUpdate(IF @ = NoResult THEN {} ELSE @, updates)]
            /\ SaveState
            /\ ret' = "ok"
            /\ UNCHANGED <<registry, running_by_user, queue_order_by_user,
                           settings_by_user, task, future>>
    /\ UNCHANGED <<constructed, speaker_clips, streams, dbVars>>

\* str.strip on the texts the model hands in.
Strip(text) == IF text = " x " THEN "x" ELSE IF text = " " THEN "" ELSE text

\* `text.strip() if text else None`
StrippedOrNone(text) == IF text = "" THEN NONE ELSE Strip(text)

\* Lines 627-633: the tags kept, out of the requested ones.  `allowed` is the
\* tag list of the owner's settings, which the model does not keep.
FilteredTags(tags, allowed) ==
    LET filtered == IF allowed # <<>>
                    THEN SelectSeq(tags, LAMBDA t : t \in Range(allowed))
                    ELSE tags
    IN  SelectSeq(filtered, LAMBDA t : Strip(t) # "")

\* update_job_meta.  An argument left out is NONE for the two texts and the
\* empty sequence for tags and published; one given is the text, <<tags>>,
\* <<published>>.  Mutant: the call also puts the job back into the queue.
UpdateJobMetaRequeueing(j, note, custom_name, tags, allowed, published) ==
    /\ constructed
    /\ IF j \notin registry THEN
            ret' = "job_not_found" /\ UNCHANGED <<memVars, saveVars>>
       ELSE /\ objs' = [objs EXCEPT
                  ![j].status = "queued",
                  ![j].note = IF note = NONE THEN @ ELSE StrippedOrNone(note),
                  ![j].custom_name =
                      IF custom_name = NONE THEN @ ELSE StrippedOrNone(custom_name),
                  ![j].tags = IF tags = <<>> THEN @ ELSE FilteredTags(tags[1], allowed),
                  ![j].published = IF published = <<>> THEN @ ELSE published[1]]
            /\ settings_by_user' =
                  IF tags = <<>> THEN settings_by_user
                  ELSE SettingsTouched(objs[j].user_id)
            /\ SaveState
            /\ ret' = "ok"
            /\ UNCHANGED <<registry, running_by_user, queue_order_by_user,
                           task, future>>
    /\ UNCHANGED <<constructed, speaker_clips, streams, dbVars>>

UpdateJobMeta(j, note, custom_name, tags, allowed, published) ==
    /\ constructed
    /\ IF j \notin registry THEN
            ret' = "job_not_found" /\ UNCHANGED <<memVars, saveVars>>
       ELSE /\ objs' = [objs EXCEPT
                  ![j].note = IF note = NONE THEN @ ELSE StrippedOrNone(note),
                  ![j].custom_name =
                      IF custom_name = NONE THEN @ ELSE StrippedOrNone(custom_name),
                  ![j].tags = IF tags = <<>> THEN @ ELSE FilteredTags(tags[1], allowed),
                  ![j].published = IF published = <<>> THEN @ ELSE published[1]]
            /\ settings_by_user' =
                  IF tags = <<>> THEN settings_by_user
                  ELSE SettingsTouched(objs[j].user_id)
            /\ SaveState
            /\ ret' = "ok"
            /\ UNCHANGED <<registry, running_by_user, queue_order_by_user,
                           task, future>>
    /\ UNCHANGED <<constructed, speaker_clips, streams, dbVars>>

\* pipeline.run of a manual-speakers job reaches `await speaker_future`.
RunAwaitsSpeakers(j) ==
    /\ j \in DOMAIN task
    /\ task[j] = "run" /\ objs[j].speaker_required
    /\ task' = [task EXCEPT ![j] = "await"]
    /\ UNCHANGED <<constructed, speaker_clips, streams, objs, registry, running_by_user, queue_order_by_user,
                   settings_by_user, future, saveVars, dbVars, ret>>

\* Mutant of the speaker step: the wait ends without the input, as after a
\* timeout.
RunResumesAfterTimeout(j) ==
    /\ j \in DOMAIN task
    /\ task[j] = "await"
    /\ task' = [task EXCEPT ![j] = "resumed"]
    /\ UNCHANGED <<constructed, speaker_clips, streams, objs, registry, running_by_user, queue_order_by_user,
                   settings_by_user, future, saveVars, dbVars, ret>>

\* The awaited future is done: pipeline.run goes on.
RunResumes(j) ==
    /\ j \in DOMAIN task
    /\ task[j] = "await" /\ future[j] = "done"
    /\ task' = [task EXCEPT ![j] = "resumed"]
    /\ UNCHANGED <<constructed, speaker_clips, streams, objs, registry, running_by_user, queue_order_by_user,
                   settings_by_user, future, saveVars, dbVars, ret>>

\* Mutant of submit_speakers: the test of _speaker_future.done() is left out.
SubmitSpeakersNoDoneCheck(j) ==
    /\ constructed
    /\ IF j \notin registry THEN
            ret' = "job_not_found" /\ UNCHANGED <<memVars, saveVars>>
       ELSE IF ~objs[j].speaker_required THEN
            ret' = "not_required" /\ UNCHANGED <<memVars, saveVars>>
       ELSE IF future[j] = "none" THEN
            ret' = "not_available" /\ UNCHANGED <<memVars, saveVars>>
       ELSE /\ objs' = [objs EXCEPT ![j].speaker_submitted = TRUE]
            /\ future' = [future EXCEPT ![j] = "done"]
            /\ SaveState
            /\ ret' = "ok"
            /\ UNCHANGED <<registry, running_by_user, queue_order_by_user,
                           settings_by_user, task>>
    /\ UNCHANGED <<constructed, speaker_clips, streams, dbVars>>

\* Mutant of submit_speakers: the test of speaker_required is left out.
SubmitSpeakersAnyJob(j) ==
    /\ constructed
    /\ IF j \notin registry THEN
            ret' = "job_not_found" /\ UNCHANGED <<memVars, saveVars>>
       ELSE IF future[j] = "done" THEN
            ret' = "already_submitted" /\ UNCHANGED <<memVars, saveVars>>
       ELSE /\ objs' = [objs EXCEPT ![j].speaker_submitted = TRUE]
            /\ future' = [future EXCEPT ![j] = "done"]
            /\ SaveState
            /\ ret' = "ok"
            /\ UNCHANGED <<registry, running_by_user, queue_order_by_user,
                           settings_by_user, task>>
    /\ UNCHANGED <<constructed, speaker_clips, streams, dbVars>>

\* submit_speakers: ret is "ok" or names the ValueError raised.
SubmitSpeakers(j) ==
    /\ constructed
    /\ IF j \notin registry THEN
            ret' = "job_not_found" /\ UNCHANGED <<memVars, saveVars>>
       ELSE IF ~objs[j].speaker_required THEN
            ret' = "not_required" /\ UNCHANGED <<memVars, saveVars>>
       ELSE IF future[j] = "none" THEN
            ret' = "not_available" /\ UNCHANGED <<memVars, saveVars>>
       ELSE IF future[j] = "done" THEN
            ret' = "already_submitted" /\ UNCHANGED <<memVars, saveVars>>
       ELSE /\ objs' = [objs EXCEPT ![j].speaker_submitted = TRUE]
            /\ future' = [future EXCEPT ![j] = "done"]
            /\ SaveState
            /\ ret' = "ok"
            /\ UNCHANGED <<registry, running_by_user, queue_order_by_user,
                           settings_by_user, task>>
    /\ UNCHANGED <<constructed, speaker_clips, streams, dbVars>>

Restrict(f, S) == [x \in DOMAIN f \cap S |-> f[x]]

DeleteJob(j) ==
    /\ constructed
    /\ j \in registry
    /\ registry' = registry \ {j}
    /\ queue_order_by_user' = [u \in Users |-> ListRemove(queue_order_by_user[u], j)]
    /\ running_by_user' = [u \in Users |-> running_by_user[u] \ {j}]
    /\ db_jobs' = Restrict(db_jobs, DOMAIN db_jobs \ {j})
    /\ SaveState
    /\ UNCHANGED <<constructed, speaker_clips, streams, objs, settings_by_user, task, future,
                   db_settings, db_queue, ret>>

Reverse(s) == [i \in 1..Len(s) |-> s[Len(s) + 1 - i]]

\* Mutant of reorder_queue: the ids not requested follow in reversed order.
ReorderedReversing(queue, job_ids) ==
    LET current == SelectSeq(queue, LAMBDA jid : jid \in registry)
        wanted == SelectSeq(job_ids, LAMBDA jid : jid \in Range(current))
        remaining == SelectSeq(current, LAMBDA jid : jid \notin Range(wanted))
    IN  wanted \o Reverse(remaining)

\* reorder_queue
Reordered(queue, job_ids) ==
    LET current == SelectSeq(queue, LAMBDA jid : jid \in registry)
        wanted == SelectSeq(job_ids, LAMBDA jid : jid \in Range(current))
        remaining == SelectSeq(current, LAMBDA jid : jid \notin Range(wanted))
    IN  wanted \o remaining

ReorderQueue(u, job_ids) ==
    /\ constructed
    /\ queue_order_by_user' =
           [queue_order_by_user EXCEPT ![u] = Reordered(@, job_ids)]
    /\ SaveState
    /\ UNCHANGED <<constructed, speaker_clips, streams, objs, registry, running_by_user, settings_by_user,
                   task, future, dbVars, ret>>

\* update_settings: parallel_enabled and max_concurrent ("keep" stands for None).
UpdatedSettings(old, parallel_enabled, max_concurrent) ==
    [parallel_enabled |->
        IF parallel_enabled = "keep" THEN old.parallel_enabled
        ELSE parallel_enabled = "on",
     max_concurrent |->
        IF max_concurrent < 0 THEN old.max_concurrent ELSE Clamp(max_concurrent)]

UpdateSettings(u, parallel_enabled, max_concurrent) ==
    /\ constructed
    /\ settings_by_user' =
           Extend(settings_by_user, u,
                  UpdatedSettings(SettingsFor(u), parallel_enabled, max_concurrent))
    /\ SaveState
    /\ UNCHANGED <<constructed, speaker_clips, streams, objs, registry, running_by_user, queue_order_by_user,
                   task, future, dbVars, ret>>

----------------------------------------------------------------------------
(* Construction: __init__ and _load_state over the store's content. *)

RECURSIVE SortedSeq(_)
SortedSeq(S) ==
    IF S = {} THEN <<>>
    ELSE LET m == CHOOSE x \in S : \A y \in S : x <= y
         IN  <<m>> \o SortedSeq(S \ {m})

\* Mutant of _load_state: an interrupted job is failed but keeps its error field.
LoadedJobKeepingError(payload) ==
    LET job == FromState(payload)
    IN  IF job.status \in {"queued", "running"}
        THEN [job EXCEPT !.status = "failed",
                         !.finished_at = IF job.finished_at = NONE THEN "t"
                                         ELSE job.finished_at]
        ELSE job

\* The loop body of _load_state, lines 654-658: an interrupted job is failed.
LoadedJob(payload) ==
    LET job == FromState(payload)
    IN  IF job.status \in {"queued", "running"}
        THEN [job EXCEPT !.status = "failed",
                         !.error = IF job.error \in {NONE, ""} THEN RestartError
                                   ELSE job.error,
                         !.finished_at = IF job.finished_at = NONE THEN "t"
                                         ELSE job.finished_at]
        ELSE job

LoadedObjs(stored) == [j \in DOMAIN stored |-> LoadedJob(stored[j])]

\* Lines 670-683: the stored order filtered to queued jobs, then the queued jobs
\* it misses, by creation time (job ids are handed out in creation order here).
LoadedQueue(stored, stored_queue, u) ==
    LET loaded == LoadedObjs(stored)
        filtered ==
            IF u \in DOMAIN stored_queue
            THEN SelectSeq(stored_queue[u],
                           LAMBDA jid : jid \in DOMAIN loaded
                                        /\ loaded[jid].status = "queued")
            ELSE <<>>
        missing == {j \in DOMAIN loaded :
                      /\ loaded[j].status = "queued"
                      /\ loaded[j].user_id = u
                      /\ j \notin Range(filtered)}
    IN  filtered \o SortedSeq(missing)

EmptyFn == [x \in {} |-> 0]

\* No call of _build_speaker_clip_candidates so far: the transcript's
\* segments by speaker, the candidates built from them, and the entries
\* speaker_clip_segments and speaker_clip_selected of the job's result, with
\* the re-pick request in flight, if any, and the clip the last one returned.
NoClips ==
    [grouped |-> EmptyFn, candidates |-> EmptyFn, built |-> FALSE,
     segments |-> EmptyFn, selected |-> EmptyFn, picked |-> FALSE,
     stored |-> FALSE, request |-> <<>>, returned |-> <<>>]

\* The memory of a scheduler just constructed over the store's content.
Constructed(stored, stored_settings, stored_queue) ==
    /\ constructed = TRUE
    /\ objs = LoadedObjs(stored)
    /\ registry = DOMAIN stored
    /\ running_by_user = [u \in Users |-> {}]
    /\ queue_order_by_user = [u \in Users |-> LoadedQueue(stored, stored_queue, u)]
    /\ settings_by_user = stored_settings
    /\ task = [j \in DOMAIN stored |-> "none"]
    /\ future = [j \in DOMAIN stored |-> "none"]
    /\ save_task = "idle"
    /\ save_pending = FALSE
    /\ writer = NoWriter
    /\ db_jobs = stored
    /\ db_settings = stored_settings
    /\ db_queue = stored_queue
    /\ ret = "ok"
    /\ streams = EmptyFn
    /\ speaker_clips = NoClips

\* The same construction as a step of a process that starts over a store.
LoadState ==
    /\ ~constructed
    /\ constructed' = TRUE
    /\ objs' = LoadedObjs(db_jobs)
    /\ registry' = DOMAIN db_jobs
    /\ running_by_user' = [u \in Users |-> {}]
    /\ queue_order_by_user' = [u \in Users |-> LoadedQueue(db_jobs, db_queue, u)]
    /\ settings_by_user' = db_settings
    /\ task' = [j \in DOMAIN db_jobs |-> "none"]
    /\ future' = [j \in DOMAIN db_jobs |-> "none"]
    /\ save_task' = "idle"
    /\ save_pending' = FALSE
    /\ writer' = NoWriter
    /\ UNCHANGED <<dbVars, ret, streams, speaker_clips>>

----------------------------------------------------------------------------
(* Spec: the scheduler constructed over an empty store, two users, every   *)
(* scheduling operation.  reorder_queue is called here with lists free of  *)
(* repeated ids; SpecReorder calls it with every list.  The store's writer *)
(* (SaveStateAsync) is left to the persistence specifications: no          *)
(* scheduling operation reads the store or the coalescing flags.           *)

Init == Constructed(EmptyFn, EmptyFn, EmptyFn)

JobIds == 1..MaxJobs

IdLists == SeqsUpTo(JobIds, MaxIdsLen)

DistinctIdLists ==
    {ids \in SeqsUpTo(JobIds, MaxDistinctLen) : Cardinality(Range(ids)) = Len(ids)}

\* update_settings calls: <<parallel_enabled, max_concurrent>>, where "keep" and
\* -1 stand for an argument left at None.
SettingsInputs ==
    {<<"on", -1>>, <<"off", -1>>, <<"keep", 0>>, <<"keep", MaxRequested>>,
     <<"on", MaxRequested>>, <<"keep", -1>>}

Next ==
    \/ \E u \in Users : Enqueue(u, FALSE, MaxJobs)
    \/ \E j \in JobIds : RunJobBegin(j)
    \/ \E j \in JobIds : RunJobPoll(j)
    \/ \E j \in JobIds : RunCompletes(j)
    \/ \E j \in JobIds : RunRaises(j)
    \/ \E j \in JobIds : DeleteJob(j)
    \/ \E u \in Users, ids \in DistinctIdLists : ReorderQueue(u, ids)
    \/ \E u \in Users, in \in SettingsInputs : UpdateSettings(u, in[1], in[2])

Spec == Init /\ [][Next]_vars

----------------------------------------------------------------------------
(* C1: the number of a user's running jobs and the user's limit. *)

RunningCount(u) ==
    Cardinality({j \in registry : objs[j].user_id = u /\ objs[j].status = "running"})

Limit(u) == IF SettingsFor(u).parallel_enabled THEN SettingsFor(u).max_concurrent ELSE 1

\* C1 as claimed: in every reachable state the number of U's jobs with status
\* running is at most max_concurrent (parallel_enabled) or 1 (otherwise).
C1_AsClaimed == \A u \in Users : RunningCount(u) <= Limit(u)

\* C1 amended: no step raises the number of U's running jobs above U's limit.
\* The number exceeds the limit only after update_settings lowered the limit
\* under jobs already running, and while it does no further job of U starts.
C1_AdmissionKeepsLimit ==
    [][\A u \in Users :
         RunningCount(u)' > Limit(u)' =>
            /\ RunningCount(u)' <= RunningCount(u)
            /\ \/ RunningCount(u) > Limit(u)
               \/ /\ u \in DOMAIN settings_by_user'
                  /\ SettingsFor(u) # settings_by_user'[u]]_vars

\* A user at the limit of two running jobs with a third job waiting in the loop.
C1_Witness ==
    \E u \in Users :
        /\ SettingsFor(u).parallel_enabled
        /\ RunningCount(u) = 2 /\ Limit(u) = 2
        /\ \E j \in registry :
              objs[j].user_id = u /\ objs[j].status = "queued" /\ task[j] = "wait"

----------------------------------------------------------------------------
(* C3: when a job may go from queued to running. *)

AllowedWindow(u) ==
    Prefix(queue_order_by_user[u],
           IF SettingsFor(u).parallel_enabled THEN SlotsAvailable(u) ELSE 1)

\* C3 as claimed: a job goes from queued to running only in a state where its
\* user has a free slot and the job is among the first N entries of the user's
\* queue-order list (N the number of free slots, or 1 when not parallel).
C3_AsClaimed ==
    [][\A j \in DOMAIN objs :
         (objs[j].status = "queued" /\ objs'[j].status = "running") =>
            /\ SlotsAvailable(objs[j].user_id) >= 1
            /\ j \in Range(AllowedWindow(objs[j].user_id))]_vars

----------------------------------------------------------------------------
(* C6: admission and ordering are scoped per user. *)

SameForUser(a) ==
    /\ queue_order_by_user'[a] = queue_order_by_user[a]
    /\ \A j \in DOMAIN objs : objs[j].user_id = a => (CanStart(j))' = CanStart(j)

StepOfUser(b) ==
    \/ Enqueue(b, FALSE, MaxJobs)
    \/ \E ids \in DistinctIdLists : ReorderQueue(b, ids)
    \/ \E in \in SettingsInputs : UpdateSettings(b, in[1], in[2])
    \/ \E j \in DOMAIN objs :
          /\ objs[j].user_id = b
          /\ \/ RunJobBegin(j) \/ RunJobPoll(j) \/ RunCompletes(j) \/ RunRaises(j)
             \/ DeleteJob(j)

\* C6: a step of user B (an enqueue, a reorder_queue with any ids, an
\* update_settings, or the start, admission, end or delete of one of B's jobs)
\* changes neither the queue-order list of another user A nor whether any job
\* of A may start.
C6_PerUserScope ==
    [][\A a \in Users :
         SameForUser(a) \/ ~(\E b \in Users \ {a} : StepOfUser(b))]_vars

\* A has a queued job that may start while B, whose settings were updated to
\* parallel, has a job running.
C6_Witness ==
    \E a \in Users, b \in Users :
        /\ a # b
        /\ \E j \in registry :
              objs[j].user_id = a /\ objs[j].status = "queued" /\ CanStart(j)
        /\ RunningCount(b) >= 1
        /\ b \in DOMAIN settings_by_user /\ settings_by_user[b].parallel_enabled

----------------------------------------------------------------------------
(* SpecSerial: no user ever enables parallel mode, and neither reorder_queue *)
(* nor delete_job is called; max_concurrent is set freely.                  *)

SerialSettingsInputs == {<<"off", -1>>, <<"keep", 0>>, <<"keep", MaxRequested>>}

NextSerial ==
    \/ \E u \in Users : Enqueue(u, FALSE, MaxJobs)
    \/ \E j \in JobIds : RunJobBegin(j)
    \/ \E j \in JobIds : RunJobPoll(j)
    \/ \E j \in JobIds : RunCompletes(j)
    \/ \E j \in JobIds : RunRaises(j)
    \/ \E u \in Users, in \in SerialSettingsInputs : UpdateSettings(u, in[1], in[2])

SpecSerial == Init /\ [][NextSerial]_vars

Terminal(j) == objs[j].status \in {"completed", "failed"}

\* C5: with parallel_enabled false and no reorder_queue or delete_job, a
\* user's jobs run one at a time in submission order (job ids are handed out
\* in submission order): a job that has left the queued status has only
\* completed or failed jobs of its user before it, whatever max_concurrent is.
C5_SerialFifo ==
    \A i \in DOMAIN objs, j \in DOMAIN objs :
        (i < j /\ objs[i].user_id = objs[j].user_id /\ objs[j].status # "queued")
            => Terminal(i)

\* A user configured with max_concurrent 2, a first job ended, a second
\* running and a third still queued.
C5_Witness ==
    \E u \in Users :
        /\ u \in DOMAIN settings_by_user
        /\ settings_by_user[u].max_concurrent >= 2
        /\ \E i \in DOMAIN objs, j \in DOMAIN objs, k \in DOMAIN objs :
              /\ i < j /\ j < k
              /\ objs[i].user_id = u /\ objs[j].user_id = u /\ objs[k].user_id = u
              /\ Terminal(i) /\ objs[j].status = "running" /\ objs[k].status = "queued"

----------------------------------------------------------------------------
(* SpecReorder: one user with up to MaxReorderJobs jobs, whose queue is     *)
(* reordered with every list of up to MaxIdsLen ids: partial lists, ids of  *)
(* no job, ids of jobs that are running, ended or deleted, and repeated ids.*)

NextReorder ==
    \/ Enqueue(1, FALSE, MaxReorderJobs)
    \/ \E j \in JobIds : RunJobBegin(j)
    \/ \E j \in JobIds : RunJobPoll(j)
    \/ \E j \in JobIds : RunCompletes(j)
    \/ \E j \in JobIds : RunRaises(j)
    \/ \E j \in JobIds : DeleteJob(j)
    \/ \E ids \in IdLists : ReorderQueue(1, ids)

SpecReorder == Init /\ [][NextReorder]_vars

Count(s, x) == Cardinality({i \in DOMAIN s : s[i] = x})

IsPermutation(a, b) == \A x \in Range(a) \cup Range(b) : Count(a, x) = Count(b, x)

\* C8 as claimed: reorder_queue with any list of ids (partial, with unknown or
\* repeated ids) leaves a permutation of the previous queue order: no queued
\* job is dropped and none appears twice.
C8_AsClaimed ==
    [][\A ids \in IdLists :
         ReorderQueue(1, ids)
            => IsPermutation(queue_order_by_user'[1], queue_order_by_user[1])]_vars

\* C9: reorder_queue is idempotent: right after reorder_queue(user, ids), a
\* second reorder_queue(user, ids) with the same ids would leave the queue
\* order as the first call left it.
C9_ReorderIdempotent ==
    [][\A ids \in IdLists :
         ReorderQueue(1, ids)
            => (Reordered(queue_order_by_user[1], ids))' = queue_order_by_user'[1]]_vars

\* reorder_queue has acted: the two queued jobs stand in the queue against
\* submission order.
C9_Witness ==
    LET queue == queue_order_by_user[1]
    IN  /\ Len(queue) = 2
        /\ queue[1] > queue[2]
        /\ \A i \in 1..2 : queue[i] \in registry /\ objs[queue[i]].status = "queued"

----------------------------------------------------------------------------
(* SpecLive: SpecReorder without delete_job, under the scheduling the event *)
(* loop gives: a task that has been created runs its first step, a waiting  *)
(* task polls again after its sleep, and every pipeline run returns or      *)
(* raises.                                                                  *)

ReorderStep == \E ids \in IdLists : ReorderQueue(1, ids)

NextLive ==
    \/ Enqueue(1, FALSE, MaxReorderJobs)
    \/ \E j \in JobIds : RunJobBegin(j)
    \/ \E j \in JobIds : RunJobPoll(j)
    \/ \E j \in JobIds : RunCompletes(j)
    \/ \E j \in JobIds : RunRaises(j)
    \/ ReorderStep

Fairness ==
    \A j \in JobIds :
        /\ WF_vars(RunJobBegin(j))
        /\ WF_vars(RunJobPoll(j))
        /\ WF_vars(RunCompletes(j) \/ RunRaises(j))

SpecLive == Init /\ [][NextLive]_vars /\ Fairness

IsQueued(j) == j \in registry /\ objs[j].status = "queued"

IsRunning(j) == j \in registry /\ objs[j].status = "running"

\* C4 as claimed: if every pipeline run returns or raises and reorder_queue is
\* called only finitely often, every job with status queued eventually has
\* status running.
C4_AsClaimed ==
    (<>[][~ReorderStep]_vars) => \A j \in JobIds : IsQueued(j) ~> IsRunning(j)

----------------------------------------------------------------------------
(* SpecFull: user 1 submits until the queue is full and beyond, while jobs  *)
(* start and end; the first job submitted may be one of user 2.             *)

FullIds == 1..(MAX_QUEUED + FullSlack)

FullLimit(u) == IF u = 1 THEN MAX_QUEUED + FullSlack ELSE 1

NextFull ==
    \/ \E u \in Users : Enqueue(u, FALSE, FullLimit(u))
    \/ \E j \in FullIds : RunJobBegin(j)
    \/ \E j \in FullIds : RunJobPoll(j)
    \/ \E j \in FullIds : RunCompletes(j)

SpecFull == Init /\ [][NextFull]_vars

ActiveJobs(u) ==
    {j \in registry : objs[j].user_id = u /\ objs[j].status \in {"queued", "running"}}

\* C2: enqueue for user U is rejected with the queue-full error exactly when U
\* has at least MAX_QUEUED jobs queued or running; a rejected enqueue creates
\* no job and changes neither the registry nor any queue order; the number of
\* U's queued-or-running jobs never exceeds MAX_QUEUED.
C2_QueueFullExactly ==
    [][\A u \in Users :
         /\ Cardinality(ActiveJobs(u))' <= MAX_QUEUED
         /\ Enqueue(u, FALSE, FullLimit(u)) =>
               /\ (ret' = "queue_full") <=> (Cardinality(ActiveJobs(u)) >= MAX_QUEUED)
               /\ (ret' = "queue_full") =>
                      UNCHANGED <<objs, registry, queue_order_by_user, running_by_user,
                                  task, future, saveVars, dbVars>>
               /\ (ret' # "queue_full") =>
                      /\ registry' = registry \cup {NewJobId}
                      /\ NewJobId \notin registry]_vars

\* An enqueue of user 1 was just rejected: ten jobs of user 1 are queued or
\* running, and user 2 has a job queued or running as well.
C2_Witness ==
    /\ ret = "queue_full"
    /\ Cardinality(ActiveJobs(1)) = MAX_QUEUED
    /\ Cardinality(ActiveJobs(2)) = 1
    /\ Cardinality(registry) = MAX_QUEUED + 1

----------------------------------------------------------------------------
(* SpecLoad: a process starts over a store left by an earlier process: up   *)
(* to MaxStored jobs in any status, with or without error text and end      *)
(* time, listed or not in a stored queue order.                             *)

StoredIds == 1..MaxStored

\* The stored jobs are shared out among the users by job id.
StoredOwner(j) == ((j - 1) % NumUsers) + 1

StoredShapes ==
    [status : Statuses, error : {NONE, "", "boom"}, finished_at : {NONE, "tZ", "bad"}]

StoredRecord(j, shape) ==
    [user_id |-> StoredOwner(j), status |-> shape.status, error |-> shape.error,
     started_at |-> NONE, finished_at |-> shape.finished_at,
     speaker_required |-> FALSE, speaker_submitted |-> FALSE,
     note |-> NONE, custom_name |-> NONE, tags_json |-> TagsJson(<<>>),
     published |-> 0,
     step_rows |-> {}, result_json |-> SqlNull]

StoredQueues ==
    {EmptyFn, [u \in Users |-> <<2, 1>>], [u \in {1} |-> <<1, MaxStored + 1>>]}

StoredSettings ==
    {EmptyFn, [u \in {1} |-> [parallel_enabled |-> TRUE, max_concurrent |-> MaxConcurrent + 2]]}

InitLoad ==
    /\ constructed = FALSE
    /\ objs = EmptyFn
    /\ registry = {}
    /\ running_by_user = [u \in Users |-> {}]
    /\ queue_order_by_user = [u \in Users |-> <<>>]
    /\ settings_by_user = EmptyFn
    /\ task = EmptyFn
    /\ future = EmptyFn
    /\ save_task = "idle"
    /\ save_pending = FALSE
    /\ writer = NoWriter
    /\ \E S \in SUBSET StoredIds : \E g \in [S -> StoredShapes] :
          db_jobs = [j \in S |-> StoredRecord(j, g[j])]
    /\ db_settings \in StoredSettings
    /\ db_queue \in StoredQueues
    /\ ret = "ok"
    /\ streams = EmptyFn
    /\ speaker_clips = NoClips

NextLoad == LoadState

SpecLoad == InitLoad /\ [][NextLoad]_vars

Resumes(j) ==
    \/ RunJobBegin(j) \/ RunJobPoll(j) \/ RunAwaitsSpeakers(j) \/ RunResumes(j)
    \/ RunCompletes(j) \/ RunRaises(j)

\* C7: once the scheduler is constructed over a persisted state, every job
\* persisted as queued or running is failed with a non-empty error and an end
\* time; no job is queued or running, none stands in a queue order or a running
\* set, and no task runs or can run any of them.
C7_CrashRecovery ==
    constructed =>
        /\ registry = DOMAIN db_jobs
        /\ \A j \in DOMAIN db_jobs :
              db_jobs[j].status \in {"queued", "running"} =>
                 /\ objs[j].status = "failed"
                 /\ objs[j].error \notin {NONE, ""}
                 /\ objs[j].finished_at # NONE
        /\ \A j \in registry :
              /\ objs[j].status \notin {"queued", "running"}
              /\ task[j] = "none"
              /\ ~ENABLED Resumes(j)
        /\ \A u \in Users : running_by_user[u] = {} /\ queue_order_by_user[u] = <<>>

\* Constructed over a store with a job persisted as running with an empty
\* error text and an unreadable end time, and a job persisted as queued that
\* the stored queue order lists.
C7_Witness ==
    /\ constructed
    /\ \E i \in DOMAIN db_jobs, j \in DOMAIN db_jobs :
          /\ db_jobs[i].status = "running" /\ db_jobs[i].error = ""
          /\ db_jobs[i].finished_at = "bad"
          /\ db_jobs[j].status = "queued" /\ db_jobs[j].error = NONE
          /\ db_jobs[j].user_id \in DOMAIN db_queue
          /\ j \in Range(db_queue[db_jobs[j].user_id])
          /\ objs[i].status = "failed" /\ objs[j].status = "failed"

----------------------------------------------------------------------------
(* SpecSpeakers: one user submits jobs with and without manual speaker      *)
(* input, over an empty store or over a store holding a manual-speakers job *)
(* that an earlier process left running; submit_speakers is called at any   *)
(* moment for any job id, known or not.                                     *)

SpeakerStores ==
    {EmptyFn,
     [j \in {1} |->
        [user_id |-> 1, status |-> "running", error |-> NONE,
         started_at |-> "tZ", finished_at |-> NONE,
         speaker_required |-> TRUE, speaker_submitted |-> FALSE,
         note |-> NONE, custom_name |-> NONE, tags_json |-> TagsJson(<<>>),
         published |-> 0,
         step_rows |-> {}, result_json |-> SqlNull]]}

InitSpeakers == \E stored \in SpeakerStores : Constructed(stored, EmptyFn, EmptyFn)

SpeakerIds == 1..(MaxSpeakerJobs + 1)

NextSpeakers ==
    \/ \E manual \in BOOLEAN : Enqueue(1, manual, MaxSpeakerJobs)
    \/ \E j \in SpeakerIds : RunJobBegin(j)
    \/ \E j \in SpeakerIds : RunJobPoll(j)
    \/ \E j \in SpeakerIds : RunAwaitsSpeakers(j)
    \/ \E j \in SpeakerIds : RunResumes(j)
    \/ \E j \in SpeakerIds : RunCompletes(j)
    \/ \E j \in SpeakerIds : RunRaises(j)
    \/ \E j \in SpeakerIds : SubmitSpeakers(j)
    \/ \E j \in SpeakerIds : DeleteJob(j)

SpecSpeakers == InitSpeakers /\ [][NextSpeakers]_vars

GateOpen(j) == j \in registry /\ objs[j].speaker_required /\ future[j] = "pending"

SubmitErrors == {"job_not_found", "not_required", "not_available", "already_submitted"}

\* C10: submit_speakers succeeds exactly when the job is known, requires manual
\* speaker input and has a pending input gate, and then fulfils the gate; in
\* every other case it raises and changes nothing.  A fulfilled gate stays
\* fulfilled, so at most one call per job succeeds.
C10_SubmitSpeakers ==
    [][/\ \A j \in SpeakerIds :
            SubmitSpeakers(j) =>
               /\ (ret' = "ok") <=> GateOpen(j)
               /\ GateOpen(j) =>
                     /\ future'[j] = "done"
                     /\ objs'[j].speaker_submitted
                     /\ ~(GateOpen(j))'
               /\ ~GateOpen(j) =>
                     /\ ret' \in SubmitErrors
                     /\ UNCHANGED <<memVars, saveVars, dbVars>>
       /\ \A j \in DOMAIN future :
            future[j] = "done" => future'[j] = "done"]_vars

\* A second submit_speakers for a job whose run already went on with the first
\* input was just rejected.
C10_Witness ==
    /\ ret = "already_submitted"
    /\ \E j \in registry :
          /\ future[j] = "done" /\ objs[j].speaker_submitted
          /\ task[j] = "resumed"

----------------------------------------------------------------------------
(* C11: the two speaker flags of a job. *)

SubmittedOnlyIfRequired ==
    \A j \in DOMAIN objs : objs[j].speaker_submitted => objs[j].speaker_required

SubmittedStays ==
    \A j \in DOMAIN objs : objs[j].speaker_submitted => objs'[j].speaker_submitted

\* C11: in every reachable state speaker_submitted is true only for jobs whose
\* speaker_required is true, and a speaker_submitted that is true never
\* becomes false again.
C11_SpeakerFlags == []SubmittedOnlyIfRequired /\ [][SubmittedStays]_vars

\* A job whose input was submitted has ended, next to a job that needs no
\* input and received none.
C11_Witness ==
    \E i \in registry, j \in registry :
        /\ objs[i].speaker_submitted /\ objs[i].status = "completed"
        /\ ~objs[j].speaker_required /\ ~objs[j].speaker_submitted
        /\ objs[j].status = "running"

----------------------------------------------------------------------------
(* SpecRun: the life of the jobs of one user in a deployment with an S3     *)
(* client, from enqueue to the end of the run, with the progress callbacks, *)
(* the speakers endpoints, delete_job and reorder_queue with every short    *)
(* lists.  While a task is inside a blocking upload_file call the event    *)
(* loop runs nothing else; the threads of the store's writer and of the     *)
(* synchronous endpoints read the jobs meanwhile.                           *)

RunJobIds == 1..MaxRunJobs

RunIdLists == SeqsUpTo(RunJobIds, MaxRunIdsLen)

\* str(e) of the exceptions a run or an upload raises.
ErrorTexts == {"boom", ""}

\* pipeline.run emits its steps in a fixed order: the next callback of job j is
\* the completed translate step, which names the translated file.
IsTranslateCompleted(j) == objs[j].emitted + 1 = TranslateCompletedAt

LoopStep ==
    \/ Enqueue(1, FALSE, MaxRunJobs)
    \/ \E j \in RunJobIds : RunJobBegin(j)
    \/ \E j \in RunJobIds : RunJobPoll(j)
    \/ \E j \in RunJobIds : OnProgress(j, IsTranslateCompleted(j))
    \/ \E j \in RunJobIds : RunReturns(j)
    \/ \E j \in RunJobIds, e \in ErrorTexts : RunRaisesWith(j, e)
    \/ \E j \in RunJobIds : UpdateJobResult(j)
    \/ \E j \in RunJobIds : DeleteJob(j)
    \/ \E ids \in RunIdLists : ReorderQueue(1, ids)
    \/ UpdateSettings(1, "on", MaxRequested)

UploadStep ==
    \/ \E j \in RunJobIds : UploadsDone(j)
    \/ \E j \in RunJobIds, e \in ErrorTexts : UploadRaises(j, e)

NextRun ==
    \/ ~Uploading /\ LoopStep
    \/ UploadStep

SpecRun == Init /\ [][NextRun]_vars

----------------------------------------------------------------------------
(* C12: a failing job and the other jobs. *)

\* _queue_position: the 1-based index in the owner's queue order, or None (0).
QueuePosition(j) ==
    LET queue == queue_order_by_user[objs[j].user_id]
    IN  IF j \in Range(queue) THEN FirstIndex(queue, j) ELSE 0

\* This step is the one in which job j fails.
Fails(j) ==
    /\ j \in DOMAIN objs
    /\ objs[j].status # "failed"
    /\ objs'[j].status = "failed"

\* C12: in every step in which a job fails, every other job of the registry
\* keeps its status, its result and its queue position.
C12_AsClaimed ==
    [][\A j \in RunJobIds : Fails(j) =>
          \A i \in registry \ {j} :
              /\ objs'[i].status = objs[i].status
              /\ objs'[i].result = objs[i].result
              /\ QueuePosition(i)' = QueuePosition(i)]_vars

----------------------------------------------------------------------------
(* C13: the order of the statuses. *)

ForwardMoves ==
    {<<"queued", "running">>, <<"running", "completed">>, <<"running", "failed">>}

\* C13: whenever the status of a job changes, it goes from queued to running,
\* or from running to completed or failed; completed and failed are never left.
C13_AsClaimed ==
    [][\A j \in DOMAIN objs :
          objs'[j].status # objs[j].status =>
              <<objs[j].status, objs'[j].status>> \in ForwardMoves]_vars

----------------------------------------------------------------------------
(* C14: the error text. *)

\* C14: in every reachable state a job has an error text (error is not None;
\* the text is str(e), which may be empty) exactly when its status is failed.
C14_ErrorIffFailed ==
    \A j \in DOMAIN objs : (objs[j].error # NONE) <=> (objs[j].status = "failed")

\* One job failed with an exception whose text is empty and before any file was
\* reported, another one failed with a text after all its callbacks.
C14_Witness ==
    \E i \in registry, j \in registry :
        /\ objs[i].status = "failed" /\ objs[i].error = ""
        /\ objs[i].result = NoResult
        /\ objs[j].status = "failed" /\ objs[j].error = "boom"
        /\ Len(objs[j].steps) = MaxEvents

----------------------------------------------------------------------------
(* C15: the two timestamps. *)

BecomesRunning(j) == objs[j].status # "running" /\ objs'[j].status = "running"

\* C15: started_at goes from unset to set in exactly the steps in which the
\* job becomes running, and in every reachable state finished_at is set exactly
\* when the status is completed or failed.
C15_AsClaimed ==
    /\ [][\A j \in DOMAIN objs :
            (objs[j].started_at = NONE /\ objs'[j].started_at # NONE)
                <=> BecomesRunning(j)]_vars
    /\ [](\A j \in DOMAIN objs :
            (objs[j].finished_at # NONE) <=> Terminal(j))

----------------------------------------------------------------------------
(* C16: which jobs hold a result. *)

CompletionKeys == FullResult \ {"translated_path"}

----------------------------------------------------------------------------
(* C17: the step log. *)

IsPrefixOf(s, t) == Len(s) <= Len(t) /\ SubSeq(t, 1, Len(s)) = s

\* This step is a progress callback of job j's run.
Callback(j) == objs'[j].emitted = objs[j].emitted + 1

\* The log holds its events in the order of their emission.
InEmissionOrder(steps) ==
    \A k \in 1..(Len(steps) - 1) : steps[k].seq < steps[k + 1].seq

\* C17: the log of a job only grows at its end: after every step it is an
\* extension of the log before the step, every progress callback of the run of
\* a job in the registry appends exactly one event, the one just emitted, and
\* the events of a log are in emission order.
C17_StepLogAppendOnly ==
    /\ [][\A j \in DOMAIN objs :
            /\ IsPrefixOf(objs[j].steps, objs'[j].steps)
            /\ (Callback(j) /\ j \in registry) =>
                   /\ Len(objs'[j].steps) = Len(objs[j].steps) + 1
                   /\ objs'[j].steps[Len(objs'[j].steps)].seq = objs'[j].emitted]_vars
    /\ [](\A j \in DOMAIN objs : InEmissionOrder(objs[j].steps))

\* A job ended with every event of its run in its log, in order, while the
\* run of another job has logged its first event.
C17_Witness ==
    \E i \in registry, j \in registry :
        /\ objs[i].status = "completed"
        /\ Len(objs[i].steps) = MaxEvents
        /\ \A k \in 1..MaxEvents : objs[i].steps[k].seq = k
        /\ objs[j].status = "running"
        /\ Len(objs[j].steps) = 1

----------------------------------------------------------------------------
(* Streaming: the /stream endpoint and PipelineJob.stream_events.  A stream *)
(* holds its job object, the copy of the log it replays, the number of      *)
(* copied events it has yielded and the events it has delivered so far.     *)
(* pc: "created" (no item asked for yet), "yielded" (suspended at a yield), *)
(* "waiting" (suspended in _progress_queue.get()), "ended".                 *)

NewStream(j) ==
    [job |-> j, pc |-> "created", snapshot |-> <<>>, replayed |-> 0, received |-> <<>>]

\* stream_pipeline_events: 404 for an unknown job, else a generator over
\* job.stream_events() is handed to the response.
StreamPipelineEvents(s, j) ==
    /\ constructed
    /\ s \notin DOMAIN streams
    /\ IF j \notin registry
       THEN ret' = "job_not_found" /\ UNCHANGED streams
       ELSE ret' = "ok" /\ streams' = Extend(streams, s, NewStream(j))
    /\ UNCHANGED <<constructed, speaker_clips, memVars, saveVars, dbVars>>

\* _progress_queue.get() returns the head of the queue: None ends the stream,
\* an event is yielded.
TakeFromQueue(s, snapshot) ==
    LET st == streams[s]
        head == Head(objs[st.job].progress_queue)
    IN  /\ objs' = [objs EXCEPT ![st.job].progress_queue = Tail(@)]
        /\ streams' = [streams EXCEPT
              ![s].snapshot = snapshot,
              ![s].pc = IF head = EndOfStream THEN "ended" ELSE "yielded",
              ![s].received = IF head = EndOfStream THEN @ ELSE Append(@, head)]

\* Mutant of stream_events: the replay loop is left out.
StreamEventsNextNoReplay(s) ==
    /\ s \in DOMAIN streams
    /\ LET st == streams[s]
           job == objs[st.job]
           snapshot == IF st.pc = "created" THEN job.steps ELSE st.snapshot
       IN  /\ \/ st.pc \in {"created", "yielded"}
              \/ st.pc = "waiting" /\ job.progress_queue # <<>>
           /\ IF ~job.has_progress_queue THEN
                   /\ streams' = [streams EXCEPT ![s].snapshot = snapshot,
                                                 ![s].pc = "ended"]
                   /\ UNCHANGED objs
              ELSE IF job.progress_queue = <<>> THEN
                   /\ streams' = [streams EXCEPT ![s].snapshot = snapshot,
                                                 ![s].pc = "waiting"]
                   /\ UNCHANGED objs
              ELSE TakeFromQueue(s, snapshot)
    /\ UNCHANGED <<constructed, speaker_clips, registry, running_by_user, queue_order_by_user,
                   settings_by_user, task, future, saveVars, dbVars, ret>>

\* stream_events from one suspension to the next: the response asks for the
\* next item, or the get() the generator waits in has an item to return.  The
\* first request copies the log; copied events are yielded one per request;
\* after them a job without a progress queue ends the stream, and otherwise
\* the generator takes the head of the queue or waits for one.
StreamEventsNext(s) ==
    /\ s \in DOMAIN streams
    /\ LET st == streams[s]
           job == objs[st.job]
           snapshot == IF st.pc = "created" THEN job.steps ELSE st.snapshot
       IN  /\ \/ st.pc \in {"created", "yielded"}
              \/ st.pc = "waiting" /\ job.progress_queue # <<>>
           /\ IF st.replayed < Len(snapshot) THEN
                   /\ streams' = [streams EXCEPT
                         ![s].snapshot = snapshot,
                         ![s].pc = "yielded",
                         ![s].replayed = @ + 1,
                         ![s].received = Append(@, snapshot[st.replayed + 1])]
                   /\ UNCHANGED objs
              ELSE IF ~job.has_progress_queue THEN
                   /\ streams' = [streams EXCEPT ![s].snapshot = snapshot,
                                                 ![s].pc = "ended"]
                   /\ UNCHANGED objs
              ELSE IF job.progress_queue = <<>> THEN
                   /\ streams' = [streams EXCEPT ![s].snapshot = snapshot,
                                                 ![s].pc = "waiting"]
                   /\ UNCHANGED objs
              ELSE TakeFromQueue(s, snapshot)
    /\ UNCHANGED <<constructed, speaker_clips, registry, running_by_user, queue_order_by_user,
                   settings_by_user, task, future, saveVars, dbVars, ret>>

----------------------------------------------------------------------------
(* SpecStream: one job and its subscribers.  The scheduler starts over an   *)
(* empty store and runs one job, or over a store that holds one ended job   *)
(* with its log, which has no progress queue.                               *)

Subscribers == 1..MaxSubscribers

StreamJobIds == 1..MaxStreamJobs

\* The log a finished run of MaxEvents callbacks left in the store.
StoredSteps == [k \in 1..MaxEvents |-> StepEvent(k, k = TranslateCompletedAt)]

StreamStores ==
    {EmptyFn,
     [j \in {1} |->
        [user_id |-> 1, status |-> "completed", error |-> NONE,
         started_at |-> "tZ", finished_at |-> "tZ",
         speaker_required |-> FALSE, speaker_submitted |-> FALSE,
         note |-> NONE, custom_name |-> NONE, tags_json |-> TagsJson(<<>>),
         published |-> 0,
         step_rows |-> StepRows(StoredSteps),
         result_json |-> ResultJson(FullResult)]]}

InitStream == \E stored \in StreamStores : Constructed(stored, EmptyFn, EmptyFn)

NextStream ==
    \/ Enqueue(1, FALSE, MaxStreamJobs)
    \/ \E j \in StreamJobIds : RunJobBegin(j)
    \/ \E j \in StreamJobIds : OnProgress(j, IsTranslateCompleted(j))
    \/ \E j \in StreamJobIds : RunCompletes(j)
    \/ \E j \in StreamJobIds : RunRaises(j)
    \/ \E s \in Subscribers, j \in StreamJobIds : StreamPipelineEvents(s, j)
    \/ \E s \in Subscribers : StreamEventsNext(s)

SpecStream == InitStream /\ [][NextStream]_vars

----------------------------------------------------------------------------
(* C18: replay before tail. *)

\* In this step stream s asks for its first item, which starts stream_events.
StartsStreaming(s) ==
    /\ s \in DOMAIN streams
    /\ streams[s].pc = "created"
    /\ streams'[s].pc # "created"

\* The items delivered so far begin with the events of log, in log order, as
\* far as they go; all of log is there once the stream is past its replay.
ReplayedFirst(st, log) ==
    /\ IsPrefixOf(st.received, log) \/ IsPrefixOf(log, st.received)
    /\ st.pc \in {"waiting", "ended"} => IsPrefixOf(log, st.received)

\* C18: the events a stream replays are the job's log of the moment it starts
\* streaming, and those k events, in log order, are the first k items the
\* stream delivers, before anything else; a stream that waits for a live event
\* or has ended has delivered all k.
C18_ReplayBeforeTail ==
    /\ [][\A s \in Subscribers :
            StartsStreaming(s) =>
                streams'[s].snapshot = objs[streams[s].job].steps]_vars
    /\ [](\A s \in DOMAIN streams :
            streams[s].pc # "created" => ReplayedFirst(streams[s], streams[s].snapshot))

\* One stream began in the middle of the run, with one event in the log, and
\* has delivered it and a live event after it; another one began after the run
\* with the whole log, and has delivered the first of its events.
C18_Witness ==
    \E s \in DOMAIN streams, r \in DOMAIN streams :
        /\ Len(streams[s].snapshot) = 1
        /\ Len(streams[s].received) = 2
        /\ streams[s].received[1] = streams[s].snapshot[1]
        /\ Len(streams[r].snapshot) = MaxEvents
        /\ Len(streams[r].received) = 1
        /\ objs[streams[r].job].status = "failed"

----------------------------------------------------------------------------
(* C19: the end of the streams.  SpecStreamLive adds what the scheduling    *)
(* gives: the event loop runs every task that is ready, so a created task   *)
(* begins, pipeline.run ends, and the response of a connected subscriber    *)
(* keeps asking its generator for the next item.                            *)

StreamFairness ==
    /\ \A j \in StreamJobIds : WF_vars(RunJobBegin(j))
    /\ \A j \in StreamJobIds : WF_vars(RunCompletes(j) \/ RunRaises(j))
    /\ \A s \in Subscribers : WF_vars(StreamEventsNext(s))

SpecStreamLive == SpecStream /\ StreamFairness

Subscribed(s) == s \in DOMAIN streams

StreamEnded(s) == s \in DOMAIN streams /\ streams[s].pc = "ended"

\* C19: whenever a subscriber has a stream of a job that is completed or
\* failed, the stream eventually ends.
C19_AsClaimed ==
    \A s \in Subscribers :
        (Subscribed(s) /\ Terminal(streams[s].job)) ~> StreamEnded(s)

----------------------------------------------------------------------------
(* C20: fan-out. *)

\* Stream s has delivered the k-th event of its job's run.
Delivered(s, k) ==
    \E i \in DOMAIN streams[s].received : streams[s].received[i].seq = k

\* Stream s has nothing left to take: it has ended, or it waits in get() and
\* its job's progress queue is empty.
UpToDate(s) ==
    \/ streams[s].pc = "ended"
    \/ streams[s].pc = "waiting" /\ objs[streams[s].job].progress_queue = <<>>

\* C20: a stream that has nothing left to take has delivered every event its
\* job's run has emitted so far, however many other streams the job has.
C20_AsClaimed ==
    \A s \in DOMAIN streams :
        UpToDate(s) => \A k \in 1..objs[streams[s].job].emitted : Delivered(s, k)

----------------------------------------------------------------------------
(* SpecPersist: the scheduler of one user with the write of the state taken *)
(* step by step.  The events run on the event loop; the thread of a write   *)
(* in flight runs between any two of them.                                  *)

PersistJobIds == 1..MaxPersistJobs

\* The handlers that change the state and call _save_state.
EventStep ==
    \/ Enqueue(1, FALSE, MaxPersistJobs)
    \/ \E j \in PersistJobIds : RunJobBegin(j)
    \/ \E j \in PersistJobIds : RunJobPoll(j)
    \/ \E j \in PersistJobIds : RunCompletes(j)
    \/ \E j \in PersistJobIds : RunRaises(j)
    \/ \E j \in PersistJobIds : DeleteJob(j)

WriterStep ==
    \/ WriteStart
    \/ WriteNextJob
    \/ WriteSaveJob

NextPersist == EventStep \/ WriterStep

SpecPersist == Init /\ [][NextPersist]_vars

----------------------------------------------------------------------------
(* C21: coalesced writes. *)

\* In this step the write in flight ends (its thread returns or raises).
WriteEnds == writer.phase # "none" /\ writer'.phase = "none"

\* C21: when the write in flight ends and events have called _save_state since
\* it started (_save_pending is set), the flag is cleared and one more write
\* follows: the save task stays alive to perform it.
C21_AsClaimed ==
    [][(WriteEnds /\ save_pending) =>
          (save_task' = "running" /\ ~save_pending')]_vars

----------------------------------------------------------------------------
(* C22: eventual durability.  SpecPersistLive adds that the save task and   *)
(* the thread of a write, once started, run on: the event loop runs every   *)
(* ready task and the executor every submitted call.  The model's jobs are  *)
(* finitely many, so every behaviour has a last event.                      *)

WriterFairness ==
    /\ WF_vars(WriteStart)
    /\ WF_vars(WriteNextJob)
    /\ WF_vars(WriteSaveJob)

SpecPersistLive == SpecPersist /\ WriterFairness

\* The store holds the latest state of every job of the registry, of every
\* settings entry and of every queue order.
StoreUpToDate ==
    /\ \A j \in registry : j \in DOMAIN db_jobs /\ db_jobs[j] = ToState(objs[j])
    /\ \A u \in DOMAIN settings_by_user :
          u \in DOMAIN db_settings /\ db_settings[u] = settings_by_user[u]
    /\ db_queue = WrittenQueue

\* C22: from some time on, which is after the last event, the store holds the
\* latest state for ever.
C22_AsClaimed == <>[]StoreUpToDate

----------------------------------------------------------------------------
(* C23: a write that fails.  SpecPersistFaulty adds the failures that come  *)
(* from outside (WriteRaises) to the one the registry's change of size      *)
(* causes.                                                                  *)

NextPersistFaulty == NextPersist \/ WriteRaises

SpecPersistFaulty == Init /\ [][NextPersistFaulty]_vars

\* This step is the end of a write by an exception.
WriteFails ==
    \/ WriteRaises
    \/ writer.phase = "jobs" /\ Cardinality(registry) # writer.used /\ WriteNextJob

\* This step is the normal return of a write.
WriteReturns == WriteEnds /\ ~WriteFails

\* C23: a write that fails changes nothing in memory (jobs, registry, queue
\* orders, running sets, settings, the position of every _run_job task, which
\* go on as before) and nothing in the store; it ends the save task and keeps
\* the pending flag, so that the next _save_state starts a write; no thread
\* outlives its task; and every write that returns has been through the whole
\* registry, the settings and the queue orders, which is how the state a failed
\* write missed gets stored.
C23_FailedWrite ==
    /\ [][WriteFails =>
            /\ memVars' = memVars
            /\ dbVars' = dbVars
            /\ save_task' = "idle"
            /\ save_pending' = save_pending]_vars
    /\ [][WriteReturns =>
            /\ registry \subseteq writer.visited
            /\ db_settings' = WrittenSettings
            /\ db_queue' = WrittenQueue]_vars
    /\ [](save_task = "idle" => writer.phase = "none")

\* A write failed with changes flagged pending and left the save task ended,
\* one job runs on and another one waits for admission; the store misses the
\* running job's state.
C23_Witness ==
    /\ save_task = "idle" /\ save_pending
    /\ \E i \in registry, j \in registry :
          /\ objs[i].status = "running" /\ task[i] = "run"
          /\ i \in DOMAIN db_jobs /\ db_jobs[i].status = "queued"
          /\ objs[j].status = "queued" /\ task[j] = "wait"

----------------------------------------------------------------------------
(* C24: delete_job and the store. *)

\* The jobs delete_job has removed: their objects are kept by their tasks.
DeletedJobs == DOMAIN objs \ registry

\* No write is in flight and none is pending.
WritesDone == save_task = "idle" /\ writer.phase = "none"

\* C24: whenever every write has finished, a deleted job is in no queue order
\* and has no row in the store, so that a restart does not load it.
C24_AsClaimed ==
    WritesDone =>
        \A j \in DeletedJobs :
            /\ \A u \in Users : j \notin Range(queue_order_by_user[u])
            /\ j \notin DOMAIN db_jobs
            /\ j \notin DOMAIN LoadedObjs(db_jobs)

----------------------------------------------------------------------------
(* SpecRoundTrip: one process runs jobs and edits their tags while the      *)
(* write thread stores them; the process ends at any moment and a new one   *)
(* is constructed over the store.                                           *)

\* The process ends: its tasks and its write thread end with it.  Its memory
\* stays in the variables until the next process has loaded the store.
ProcessEnds ==
    /\ constructed
    /\ constructed' = FALSE
    /\ task' = [j \in DOMAIN task |-> "done"]
    /\ save_task' = "idle"
    /\ save_pending' = FALSE
    /\ writer' = NoWriter
    /\ UNCHANGED <<streams, speaker_clips, objs, registry, running_by_user, queue_order_by_user,
                   settings_by_user, future, dbVars, ret>>

RoundTripJobIds == 1..MaxRoundTripJobs

\* The tag lists of the calls, and the tag lists of the owner's settings.
TagLists == {<<"a">>, <<"b", "a">>}

AllowedTags == {<<>>, <<"a">>}

NextRoundTrip ==
    \/ Enqueue(1, FALSE, MaxRoundTripJobs)
    \/ \E j \in RoundTripJobIds : RunJobBegin(j)
    \/ \E j \in RoundTripJobIds : OnProgress(j, IsTranslateCompleted(j))
    \/ \E j \in RoundTripJobIds : RunCompletes(j)
    \/ \E j \in RoundTripJobIds : RunRaises(j)
    \/ \E j \in RoundTripJobIds, tags \in TagLists, allowed \in AllowedTags :
            UpdateJobMeta(j, NONE, NONE, <<tags>>, allowed, <<>>)
    \/ WriterStep
    \/ ProcessEnds
    \/ LoadState

SpecRoundTrip == Init /\ [][NextRoundTrip]_vars

\* The store holds job j as the process wrote it from its present memory.
Written(j) == j \in DOMAIN db_jobs /\ db_jobs[j] = ToState(objs[j])

----------------------------------------------------------------------------
(* C26: the queue orders and the registry. *)

QueuedOf(u) ==
    {j \in registry : objs[j].user_id = u /\ objs[j].status = "queued"}

\* C26 as claimed: in every reachable state the queue order of each user
\* holds exactly the ids of the user's queued jobs of the registry, each
\* once, so that the reported queue position is the index of a queued job
\* and none (0) for a running or ended job.
C26_AsClaimed ==
    /\ \A u \in Users :
          /\ Range(queue_order_by_user[u]) = QueuedOf(u)
          /\ \A j \in QueuedOf(u) : Count(queue_order_by_user[u], j) = 1
    /\ \A j \in registry :
          (QueuePosition(j) # 0) <=> (objs[j].status = "queued")

----------------------------------------------------------------------------
(* SpecMeta: the scheduler of one user with the two calls that edit a job   *)
(* beside its run, update_job_result and update_job_meta, for ids of the    *)
(* registry and for ids that are not in it yet.                             *)

MetaJobIds == 1..MaxMetaJobs

\* The updates of the calls: dicts of one and of two entries.
UpdateMaps == {{"speakers_path:new"}, {"audio_path:new", "speakers_path"}}

\* The calls of update_job_meta: every field at once, fields cleared, and a
\* tag list with a blank and a tag the owner's settings do not have.
MetaCalls ==
    {[note |-> " x ", custom_name |-> " ", tags |-> <<<<"b", "a">>>>,
      allowed |-> <<>>, published |-> <<TRUE>>],
     [note |-> "", custom_name |-> NONE, tags |-> <<<<>>>>,
      allowed |-> <<"a">>, published |-> <<FALSE>>],
     [note |-> NONE, custom_name |-> NONE, tags |-> <<<<" ", "b", "a">>>>,
      allowed |-> <<"a">>, published |-> <<>>]}

UpdateJobMetaCall(j, c) ==
    UpdateJobMeta(j, c.note, c.custom_name, c.tags, c.allowed, c.published)

NextMeta ==
    \/ Enqueue(1, FALSE, MaxMetaJobs)
    \/ \E j \in MetaJobIds : RunJobBegin(j)
    \/ \E j \in MetaJobIds : RunJobPoll(j)
    \/ \E j \in MetaJobIds : RunCompletes(j)
    \/ \E j \in MetaJobIds : RunRaises(j)
    \/ UpdateSettings(1, "on", MaxRequested)
    \/ \E j \in MetaJobIds, m \in UpdateMaps : UpdateJobResultWith(j, m)
    \/ \E j \in MetaJobIds, c \in MetaCalls : UpdateJobMetaCall(j, c)

SpecMeta == Init /\ [][NextMeta]_vars

\* The dict the call updates: `{}` in place of None.
ResultDict(j) == IF objs[j].result = NoResult THEN {} ELSE objs[j].result

\* C27: update_job_result(j, m) for a job of the registry leaves a dict that
\* holds every entry of m, every earlier entry whose key is not in m, and
\* nothing else; no other field of the job, no other job, no queue order and
\* no running set changes.  For an id that is not in the registry the call
\* fails and changes nothing.
C27_ResultMerge ==
    [][\A j \in MetaJobIds, m \in UpdateMaps :
          UpdateJobResultWith(j, m) =>
              IF j \in registry
              THEN /\ m \subseteq objs'[j].result
                   /\ \A e \in ResultDict(j) :
                         KeyOf(e) \notin Keys(m) => e \in objs'[j].result
                   /\ objs'[j].result \subseteq ResultDict(j) \cup m
                   /\ IsDict(objs'[j].result)
                   /\ [objs' EXCEPT ![j].result = objs[j].result] = objs
                   /\ UNCHANGED <<registry, queue_order_by_user, running_by_user>>
              ELSE /\ ret' = "job_not_found"
                   /\ UNCHANGED <<memVars, saveVars, dbVars>>]_vars

\* A completed job whose audio_path was replaced and whose speakers_path was
\* added by a call, the entries of the run being kept for the other keys.
C27_Witness ==
    /\ 1 \in registry
    /\ objs[1].status = "completed"
    /\ objs[1].result =
          {"translated_path", "summary_path", "audio_path:new", "speakers_path"}
    /\ ret = "ok"

\* C28: update_job_meta changes no job's status, no queue order, no running
\* set and not the registry, and every job of the registry can start after
\* the call exactly when it could before.
C28_MetaLeavesScheduling ==
    [][\A j \in MetaJobIds, c \in MetaCalls :
          UpdateJobMetaCall(j, c) =>
              /\ \A k \in DOMAIN objs : objs'[k].status = objs[k].status
              /\ UNCHANGED <<registry, queue_order_by_user, running_by_user>>
              /\ \A k \in registry : CanStart(k)' = CanStart(k)]_vars

\* A running job that was given a note, a name, tags and the published mark,
\* with a queued job behind it.
C28_Witness ==
    /\ {1, 2} \subseteq registry
    /\ objs[1].status = "running"
    /\ objs[1].note = "x"
    /\ objs[1].custom_name = ""
    /\ objs[1].tags = <<"b", "a">>
    /\ objs[1].published
    /\ objs[2].status = "queued"
    /\ 1 \in DOMAIN settings_by_user

----------------------------------------------------------------------------
(* SpecStartup: a process over an empty store, into which the state file of *)
(* the earlier single-user version may be migrated before the scheduler is  *)
(* constructed; the scheduler then loads the store and serves its users.    *)

AdminUser == 1

\* The settings of a legacy state file: none, or one entry whose
\* max_concurrent is whatever number the file holds.
LegacySettings ==
    {<<>>} \cup
    {<<[parallel_enabled |-> p, max_concurrent |-> n]>> :
        p \in BOOLEAN, n \in {0, MaxRequested, MaxConcurrent + MaxRequested}}

\* Its jobs: none, or one completed job.
LegacyJobs ==
    {EmptyFn,
     [j \in {1} |->
        StoredRecord(1, [status |-> "completed", error |-> NONE, finished_at |-> "tZ"])]}

LegacyQueues == {<<>>, <<1>>}

\* migrate_from_pipeline_state: the settings entry, the jobs and the queue
\* order of the file are stored for the admin user as the file holds them.
MigrateFromPipelineState(settings, jobs, queue_order) ==
    /\ ~constructed
    /\ db_settings' = IF settings = <<>> THEN db_settings
                      ELSE Extend(db_settings, AdminUser,
                                  [parallel_enabled |-> settings[1].parallel_enabled,
                                   max_concurrent |-> settings[1].max_concurrent])
    /\ db_jobs' = [j \in DOMAIN db_jobs \cup DOMAIN jobs |->
                     IF j \in DOMAIN jobs
                     THEN [jobs[j] EXCEPT !.user_id = AdminUser]
                     ELSE db_jobs[j]]
    /\ db_queue' = IF queue_order = <<>> THEN db_queue
                   ELSE Extend(db_queue, AdminUser, queue_order)
    /\ UNCHANGED <<constructed, speaker_clips, streams, memVars, saveVars, ret>>

InitStartup ==
    /\ constructed = FALSE
    /\ objs = EmptyFn
    /\ registry = {}
    /\ running_by_user = [u \in Users |-> {}]
    /\ queue_order_by_user = [u \in Users |-> <<>>]
    /\ settings_by_user = EmptyFn
    /\ task = EmptyFn
    /\ future = EmptyFn
    /\ save_task = "idle"
    /\ save_pending = FALSE
    /\ writer = NoWriter
    /\ db_jobs = EmptyFn
    /\ db_settings = EmptyFn
    /\ db_queue = EmptyFn
    /\ ret = "ok"
    /\ streams = EmptyFn
    /\ speaker_clips = NoClips

NextStartup ==
    \/ \E settings \in LegacySettings, jobs \in LegacyJobs, queue_order \in LegacyQueues :
            MigrateFromPipelineState(settings, jobs, queue_order)
    \/ LoadState
    \/ \E u \in Users, in \in SettingsInputs : UpdateSettings(u, in[1], in[2])
    \/ \E c \in MetaCalls : UpdateJobMetaCall(1, c)

SpecStartup == InitStartup /\ [][NextStartup]_vars

\* C29 as claimed: in every state of a constructed scheduler, the state right
\* after the settings were loaded from the store included, the max_concurrent
\* of every user, with or without a settings entry, lies in 1..5.
C29_AsClaimed ==
    constructed =>
        \A u \in Users : SettingsFor(u).max_concurrent \in MinConcurrent..MaxConcurrent

----------------------------------------------------------------------------
(* _build_speaker_clip_candidates (pipeline.py).  Times are whole numbers;  *)
(* a segment is a record of its start and its end, and `grouped` maps each  *)
(* speaker to the list of the speaker's segments.                           *)

SegmentsOverlap(a_start, a_end, b_start, b_end) ==
    ~(a_end <= b_start \/ b_end <= a_start)

ClipEntry(speaker, seg) ==
    [speaker |-> speaker, start |-> seg.start, end |-> seg.end,
     duration |-> seg.end - seg.start]

\* The entries of a speaker's segments, those with end <= start skipped.
ClipItems(grouped, speaker) ==
    LET segments == grouped[speaker]
        entries == [i \in 1..Len(segments) |-> ClipEntry(speaker, segments[i])]
    IN  SelectSeq(entries, LAMBDA e : ~(e.end <= e.start))

\* all_segments, which is only searched.
AllSegments(grouped) ==
    UNION {Range(ClipItems(grouped, speaker)) : speaker \in DOMAIN grouped}

OverlapsOther(all_segments, entry) ==
    \E other \in all_segments :
        /\ other.speaker # entry.speaker
        /\ SegmentsOverlap(entry.start, entry.end, other.start, other.end)

\* `non_overlap or items`, and as a mutant without the preference.
ClipSourceOfAll(items, non_overlap) == items

ClipSource(items, non_overlap) == IF non_overlap # <<>> THEN non_overlap ELSE items

\* list.sort(key=duration, reverse=True): stable, longest first (and, as a
\* mutant, the list left as it is).
Unsorted(entries) == entries

RECURSIVE SortedByDuration(_)
SortedByDuration(entries) ==
    IF entries = <<>> THEN <<>>
    ELSE LET longest == CHOOSE i \in DOMAIN entries :
                 /\ \A k \in DOMAIN entries : entries[k].duration <= entries[i].duration
                 /\ \A k \in 1..(i - 1) : entries[k].duration < entries[i].duration
             rest == [k \in 1..(Len(entries) - 1) |->
                        IF k < longest THEN entries[k] ELSE entries[k + 1]]
         IN  <<entries[longest]>> \o SortedByDuration(rest)

Distance(a, b) == IF a < b THEN b - a ELSE a - b

\* min(source, key=...): the first entry whose duration is nearest the target.
Closest(source, target) ==
    source[CHOOSE i \in DOMAIN source :
              /\ \A k \in DOMAIN source :
                    Distance(source[i].duration, target)
                        <= Distance(source[k].duration, target)
              /\ \A k \in 1..(i - 1) :
                    Distance(source[k].duration, target)
                        > Distance(source[i].duration, target)]

\* The candidates of one speaker with a non-empty source.
ChosenClips(source, min_duration, max_duration, max_candidates) ==
    LET sorted == SortedByDuration(source)
        chosen == Prefix(sorted, max_candidates)
        target == (min_duration + max_duration) \div 2
        closest == Closest(sorted, target)
        with_closest ==
            IF \E i \in DOMAIN chosen :
                  chosen[i].start = closest.start /\ chosen[i].end = closest.end
            THEN chosen ELSE Append(chosen, closest)
    IN  Prefix(with_closest, max_candidates)

SourceFor(grouped, speaker) ==
    LET items == ClipItems(grouped, speaker)
        all_segments == AllSegments(grouped)
        non_overlap == SelectSeq(items, LAMBDA e : ~OverlapsOther(all_segments, e))
    IN  ClipSource(items, non_overlap)

BuildSpeakerClipCandidates(grouped, min_duration, max_duration, max_candidates) ==
    [speaker \in {sp \in DOMAIN grouped : SourceFor(grouped, sp) # <<>>} |->
        ChosenClips(SourceFor(grouped, speaker),
                    min_duration, max_duration, max_candidates)]

(* SpecClips: the function applied once to every grouping of two speakers   *)
(* with segments whose times lie in 0..MaxClipTime, segments with           *)
(* end <= start among them; speaker A has up to MaxSegments segments and    *)
(* speaker B one less.                                                      *)

ClipTimes == 0..MaxClipTime

ClipSegments == [start : ClipTimes, end : ClipTimes]

SegmentLists(n) == UNION {[1..k -> ClipSegments] : k \in 0..n}

Groupings ==
    {[speaker \in {"A", "B"} |-> IF speaker = "A" THEN a ELSE b] :
        a \in SegmentLists(MaxSegments), b \in SegmentLists(MaxSegments - 1)}

InitClipsWith(groupings) ==
    /\ constructed = TRUE
    /\ objs = EmptyFn
    /\ registry = {}
    /\ running_by_user = [u \in Users |-> {}]
    /\ queue_order_by_user = [u \in Users |-> <<>>]
    /\ settings_by_user = EmptyFn
    /\ task = EmptyFn
    /\ future = EmptyFn
    /\ save_task = "idle"
    /\ save_pending = FALSE
    /\ writer = NoWriter
    /\ db_jobs = EmptyFn
    /\ db_settings = EmptyFn
    /\ db_queue = EmptyFn
    /\ ret = "ok"
    /\ streams = EmptyFn
    /\ \E grouped \in groupings :
          speaker_clips = [NoClips EXCEPT !.grouped = grouped]

InitClips == InitClipsWith(Groupings)

\* The call of the speakers step.
BuildClips ==
    /\ ~speaker_clips.built
    /\ speaker_clips' =
          [speaker_clips EXCEPT
              !.candidates = BuildSpeakerClipCandidates(
                                 speaker_clips.grouped, ClipMinDuration,
                                 ClipMaxDuration, ClipMaxCandidates),
              !.built = TRUE]
    /\ UNCHANGED <<constructed, streams, memVars, saveVars, dbVars, ret>>

NextClips == BuildClips

SpecClips == InitClips /\ [][NextClips]_vars

\* A segment of the speaker that is valid and overlaps no valid segment of
\* another speaker (touching ends do not overlap).
IsSolo(grouped, speaker, seg) ==
    /\ seg.end > seg.start
    /\ \A other \in DOMAIN grouped \ {speaker} :
          \A i \in DOMAIN grouped[other] :
              LET o == grouped[other][i]
              IN  o.end > o.start =>
                      (seg.end <= o.start \/ o.end <= seg.start)

HasSolo(grouped, speaker) ==
    \E i \in DOMAIN grouped[speaker] : IsSolo(grouped, speaker, grouped[speaker][i])

\* C30: once the candidates are built, every candidate of a speaker is one
\* of the speaker's segments with end > start; for a speaker with a solo
\* segment every candidate is a solo segment; a speaker has candidates
\* exactly when the speaker has a segment with end > start, so that segments
\* overlapping another speaker are used only for a speaker without a solo
\* segment.
C30_SoloPreferred ==
    speaker_clips.built =>
        LET grouped == speaker_clips.grouped
            candidates == speaker_clips.candidates
        IN  \A speaker \in DOMAIN grouped :
              /\ speaker \in DOMAIN candidates
                    <=> \E i \in DOMAIN grouped[speaker] :
                           grouped[speaker][i].end > grouped[speaker][i].start
              /\ speaker \in DOMAIN candidates =>
                    /\ candidates[speaker] # <<>>
                    /\ \A k \in DOMAIN candidates[speaker] :
                          LET c == candidates[speaker][k]
                              seg == [start |-> c.start, end |-> c.end]
                          IN  /\ c.end > c.start
                              /\ c.speaker = speaker
                              /\ c.duration = c.end - c.start
                              /\ \E i \in DOMAIN grouped[speaker] :
                                    grouped[speaker][i] = seg
                              /\ HasSolo(grouped, speaker) =>
                                    IsSolo(grouped, speaker, seg)

\* Speaker A has a segment that only touches speaker B's segment, a segment
\* under it and a segment with end < start, and the candidates are built:
\* for A the touching segment alone, and for B, who has no solo segment, the
\* segment under A's.
C30_Witness ==
    /\ speaker_clips.built
    /\ speaker_clips.grouped["A"] =
          <<[start |-> 0, end |-> 1], [start |-> 1, end |-> 2], [start |-> 2, end |-> 1]>>
    /\ speaker_clips.grouped["B"] = <<[start |-> 1, end |-> 2]>>
    /\ Len(speaker_clips.candidates["A"]) = 1
    /\ speaker_clips.candidates["A"][1].start = 0
    /\ Len(speaker_clips.candidates["B"]) = 1

\* The pool of a speaker: the entries the candidates are chosen from.
Pool(speaker) == Range(SourceFor(speaker_clips.grouped, speaker))

\* C31: once the candidates are built, the list of every speaker holds at
\* most max_candidates entries, each of them an entry of the speaker's pool,
\* in non-increasing order of duration.
C31_CandidatesSorted ==
    speaker_clips.built =>
        \A speaker \in DOMAIN speaker_clips.candidates :
            LET chosen == speaker_clips.candidates[speaker]
            IN  /\ Len(chosen) <= ClipMaxCandidates
                /\ Range(chosen) \subseteq Pool(speaker)
                /\ \A i, k \in DOMAIN chosen :
                      i < k => chosen[i].duration >= chosen[k].duration

\* Speaker A's three segments, the short one first, are all solo: the list
\* is cut to the two long ones.
C31_Witness ==
    /\ speaker_clips.built
    /\ speaker_clips.grouped["A"] =
          <<[start |-> 0, end |-> 1], [start |-> 0, end |-> 2], [start |-> 0, end |-> 2]>>
    /\ speaker_clips.grouped["B"] = <<>>
    /\ Len(speaker_clips.candidates["A"]) = ClipMaxCandidates
    /\ speaker_clips.candidates["A"][1].duration = 2

\* The target duration of the call.
ClipTarget == (ClipMinDuration + ClipMaxDuration) \div 2

\* C32 as claimed: for every speaker with a non-empty pool, the pool entry
\* nearest the target duration is one of the candidates, also when the pool
\* holds more than max_candidates entries and the longest ones do not
\* include it.
C32_AsClaimed ==
    speaker_clips.built =>
        \A speaker \in DOMAIN speaker_clips.grouped :
            Pool(speaker) # {} =>
                /\ speaker \in DOMAIN speaker_clips.candidates
                /\ \E c \in Range(speaker_clips.candidates[speaker]) :
                      \A e \in Pool(speaker) :
                          Distance(c.duration, ClipTarget)
                              <= Distance(e.duration, ClipTarget)

----------------------------------------------------------------------------
(* SpecPick: the speakers step of a run and the re-picks after it, for      *)
(* every grouping of two speakers with segments of end > start over times   *)
(* 0..MaxPickTime.  The window of durations is scaled to                    *)
(* PickMinDuration..PickMaxDuration, so that candidates lie under it, in it *)
(* and over it.                                                             *)

PickTarget == (PickMinDuration + PickMaxDuration) \div 2

InWindow(entry, min_duration, max_duration) ==
    min_duration <= entry.duration /\ entry.duration <= max_duration

\* The pick among the candidates of one speaker: the in-window candidate
\* nearest the target (the first of them in list order), or the longest
\* candidate when none is in the window; as a mutant, always the longest.
PickedLongest(segments, min_duration, max_duration) ==
    SortedByDuration(segments)[1]

Picked(segments, min_duration, max_duration) ==
    LET preferred ==
            SelectSeq(segments, LAMBDA e : InWindow(e, min_duration, max_duration))
    IN  IF preferred # <<>>
        THEN Closest(preferred, (min_duration + max_duration) \div 2)
        ELSE SortedByDuration(segments)[1]

PickRepresentativeSegments(candidates, min_duration, max_duration) ==
    [speaker \in {sp \in DOMAIN candidates : candidates[sp] # <<>>} |->
        Picked(candidates[speaker], min_duration, max_duration)]

\* _detect_speaker_configs up to its loop over the speakers: the candidates
\* are built and the representative segments picked.
DetectSpeakerConfigs ==
    /\ ~speaker_clips.built
    /\ LET candidates ==
               BuildSpeakerClipCandidates(speaker_clips.grouped, PickMinDuration,
                                          PickMaxDuration, ClipMaxCandidates)
       IN  speaker_clips' =
               [speaker_clips EXCEPT
                   !.candidates = candidates,
                   !.segments = PickRepresentativeSegments(
                                    candidates, PickMinDuration, PickMaxDuration),
                   !.built = TRUE,
                   !.picked = TRUE]
    /\ UNCHANGED <<constructed, streams, memVars, saveVars, dbVars, ret>>

PickTimes == 0..MaxPickTime

PickSegments == {seg \in [start : PickTimes, end : PickTimes] : seg.end > seg.start}

PickSegmentLists(n) == UNION {[1..k -> PickSegments] : k \in 0..n}

PickGroupings ==
    {[speaker \in {"A", "B"} |-> IF speaker = "A" THEN a ELSE b] :
        a \in PickSegmentLists(MaxSegments), b \in PickSegmentLists(MaxSegments - 2)}

InitPick == InitClipsWith(PickGroupings)

\* run, lines 276-284: without speaker configs (no segment picked, or no clip
\* extracted) the candidates and segments are dropped; the default index of
\* every tag is 0.
RunStoresClips(any_speaker) ==
    /\ speaker_clips.picked /\ ~speaker_clips.stored
    /\ any_speaker => DOMAIN speaker_clips.segments # {}
    /\ speaker_clips' =
          IF any_speaker
          THEN [speaker_clips EXCEPT
                   !.selected = [tag \in DOMAIN speaker_clips.segments |-> 0],
                   !.stored = TRUE]
          ELSE [speaker_clips EXCEPT
                   !.candidates = EmptyFn,
                   !.segments = EmptyFn,
                   !.selected = [tag \in DOMAIN speaker_clips.grouped |-> 0],
                   !.stored = TRUE]
    /\ UNCHANGED <<constructed, streams, memVars, saveVars, dbVars, ret>>

\* The candidates a re-pick works on: the stored ones, or new ones built
\* from the transcript when none are stored.
RepickCandidatesOf(clips) ==
    IF clips.candidates # EmptyFn THEN clips.candidates
    ELSE BuildSpeakerClipCandidates(clips.grouped, PickMinDuration,
                                    PickMaxDuration, ClipMaxCandidates)

RepickCandidates == RepickCandidatesOf(speaker_clips)

\* int(selected.get(tag, 0))
CurrentIndexIn(clips, tag) ==
    IF tag \in DOMAIN clips.selected THEN clips.selected[tag] ELSE 0

CurrentIndex(tag) == CurrentIndexIn(speaker_clips, tag)

\* next_index = (current_index + 1) % len(options), and a variant that
\* leaves the index where it is.
AdvanceStaying(current_index, len) == current_index

Advance(current_index, len) == (current_index + 1) % len

NextIndex(tag, options) == Advance(CurrentIndex(tag), Len(options))

NoRequest == <<>>

\* reclip_speaker up to the extraction of the clip: the index of the tag is
\* advanced in the dict of the job's result.
ReclipSpeakerBegin(tag) ==
    /\ speaker_clips.stored /\ speaker_clips.request = NoRequest
    /\ LET candidates == RepickCandidates
       IN  IF tag \notin DOMAIN candidates
           THEN /\ ret' = "no_candidates"
                /\ UNCHANGED speaker_clips
           ELSE LET options == candidates[tag]
                    next_index == NextIndex(tag, options)
                IN  /\ ret' = "ok"
                    /\ speaker_clips' =
                          [speaker_clips EXCEPT
                              !.selected = Extend(@, tag, next_index),
                              !.request = <<[kind |-> "one", tag |-> tag,
                                             seg |-> options[next_index + 1],
                                             candidates |-> candidates,
                                             remaining |-> <<>>,
                                             chosen |-> EmptyFn]>>]
    /\ UNCHANGED <<constructed, streams, memVars, saveVars, dbVars>>

\* The clip is extracted: the segment, the candidates and the index are
\* stored with update_job_result, and the job is returned.
ReclipSpeakerEnd ==
    /\ speaker_clips.request # NoRequest
    /\ speaker_clips.request[1].kind = "one"
    /\ LET req == speaker_clips.request[1]
       IN  speaker_clips' =
               [speaker_clips EXCEPT
                   !.segments = Extend(@, req.tag, req.seg),
                   !.candidates = req.candidates,
                   !.returned = <<req.seg>>,
                   !.request = NoRequest]
    /\ UNCHANGED <<constructed, streams, memVars, saveVars, dbVars, ret>>

\* _extract_audio_clip raises: the request ends with nothing stored.
ReclipFails ==
    /\ speaker_clips.request # NoRequest
    /\ speaker_clips' = [speaker_clips EXCEPT !.request = NoRequest]
    /\ ret' = "error"
    /\ UNCHANGED <<constructed, streams, memVars, saveVars, dbVars>>

\* The tags in the order of _speaker_sort_key.
RECURSIVE TagOrder(_)
TagOrder(tags) ==
    IF tags = {} THEN <<>>
    ELSE LET first == IF "A" \in tags THEN "A" ELSE CHOOSE t \in tags : TRUE
         IN  <<first>> \o TagOrder(tags \ {first})

\* reclip_speakers: the request for every tag of the job.
ReclipSpeakersBegin ==
    /\ speaker_clips.stored /\ speaker_clips.request = NoRequest
    /\ speaker_clips' =
          [speaker_clips EXCEPT
              !.request = <<[kind |-> "all", tag |-> "",
                             seg |-> [speaker |-> "", start |-> 0, end |-> 0,
                                      duration |-> 0],
                             candidates |-> RepickCandidates,
                             remaining |-> TagOrder(DOMAIN speaker_clips.selected),
                             chosen |-> EmptyFn]>>]
    /\ UNCHANGED <<constructed, streams, memVars, saveVars, dbVars, ret>>

\* One turn of its loop: the index of the next tag is advanced and the clip
\* extracted; a tag without candidates is passed over.
ReclipSpeakersNext ==
    /\ speaker_clips.request # NoRequest
    /\ speaker_clips.request[1].kind = "all"
    /\ speaker_clips.request[1].remaining # <<>>
    /\ LET req == speaker_clips.request[1]
           tag == Head(req.remaining)
       IN  IF tag \notin DOMAIN req.candidates
           THEN speaker_clips' =
                    [speaker_clips EXCEPT !.request[1].remaining = Tail(@)]
           ELSE LET options == req.candidates[tag]
                    next_index == NextIndex(tag, options)
                IN  speaker_clips' =
                        [speaker_clips EXCEPT
                            !.selected = Extend(@, tag, next_index),
                            !.request[1].remaining = Tail(@),
                            !.request[1].chosen =
                                Extend(@, tag, options[next_index + 1])]
    /\ UNCHANGED <<constructed, streams, memVars, saveVars, dbVars, ret>>

\* After the loop: 400 when no clip was made, and otherwise the segments
\* chosen, the candidates and the indexes are stored.
ReclipSpeakersEnd ==
    /\ speaker_clips.request # NoRequest
    /\ speaker_clips.request[1].kind = "all"
    /\ speaker_clips.request[1].remaining = <<>>
    /\ LET req == speaker_clips.request[1]
       IN  IF req.chosen = EmptyFn
           THEN /\ ret' = "no_clips"
                /\ speaker_clips' = [speaker_clips EXCEPT !.request = NoRequest]
           ELSE /\ ret' = "ok"
                /\ speaker_clips' =
                      [speaker_clips EXCEPT
                          !.segments = req.chosen,
                          !.candidates = req.candidates,
                          !.request = NoRequest]
    /\ UNCHANGED <<constructed, streams, memVars, saveVars, dbVars>>

NextPick ==
    \/ DetectSpeakerConfigs
    \/ \E any_speaker \in BOOLEAN : RunStoresClips(any_speaker)
    \/ \E tag \in {"A", "B"} : ReclipSpeakerBegin(tag)
    \/ ReclipSpeakerEnd
    \/ ReclipFails
    \/ ReclipSpeakersBegin
    \/ ReclipSpeakersNext
    \/ ReclipSpeakersEnd

SpecPick == InitPick /\ [][NextPick]_vars

C34_AsClaimed ==
    (speaker_clips.stored /\ speaker_clips.request = NoRequest) =>
        \A speaker \in DOMAIN speaker_clips.candidates :
            /\ speaker \in DOMAIN speaker_clips.selected
            /\ speaker \in DOMAIN speaker_clips.segments
            /\ speaker_clips.candidates[speaker][speaker_clips.selected[speaker] + 1]
                   = speaker_clips.segments[speaker]

RECURSIVE Rotated(_, _, _)
Rotated(index, len, times) ==
    IF times = 0 THEN index ELSE Rotated(Advance(index, len), len, times - 1)

\* The clip of the tag in the job a re-pick answers with.
ReturnedClip(clips, tag) == clips.segments[tag]

\* C35: a re-pick of a speaker moves the index to (index + 1) mod the length
\* of the speaker's candidate list and, when its clip is extracted, answers
\* with the candidate at that index; the candidate lists it works on stay as
\* they are; the index is within 0..len-1, and len re-picks bring it back.
C35_RoundRobin ==
    [][/\ speaker_clips'.stored =>
            \A tag \in DOMAIN RepickCandidatesOf(speaker_clips') :
                LET len == Len(RepickCandidatesOf(speaker_clips')[tag])
                    index == CurrentIndexIn(speaker_clips', tag)
                IN  /\ index \in 0..(len - 1)
                    /\ Rotated(index, len, len) = index
       /\ speaker_clips.stored =>
            RepickCandidatesOf(speaker_clips') = RepickCandidates
       /\ \A tag \in {"A", "B"} :
            (ReclipSpeakerBegin(tag) /\ ret' = "ok") =>
                LET len == Len(RepickCandidates[tag])
                IN  /\ speaker_clips'.selected[tag] = (CurrentIndex(tag) + 1) % len
                    /\ \A other \in DOMAIN speaker_clips.selected \ {tag} :
                          speaker_clips'.selected[other] = speaker_clips.selected[other]
       /\ ReclipSpeakerEnd =>
            LET tag == speaker_clips.request[1].tag
            IN  /\ speaker_clips'.selected = speaker_clips.selected
                /\ ReturnedClip(speaker_clips', tag) =
                      RepickCandidates[tag][speaker_clips.selected[tag] + 1]
                /\ speaker_clips'.returned = <<ReturnedClip(speaker_clips', tag)>>
       /\ ReclipSpeakersNext =>
            LET tag == Head(speaker_clips.request[1].remaining)
            IN  tag \in DOMAIN RepickCandidates =>
                  LET len == Len(RepickCandidates[tag])
                  IN  /\ speaker_clips'.selected[tag] = (CurrentIndex(tag) + 1) % len
                      /\ speaker_clips'.request[1].chosen[tag] =
                            RepickCandidates[tag][speaker_clips'.selected[tag] + 1]]_vars

\* A speaker with two candidates whose index has gone from 0 to 1 and back to
\* 0 by two re-picks, the second one answered with the first candidate.
C35_Witness ==
    /\ speaker_clips.stored /\ speaker_clips.request = NoRequest
    /\ "A" \in DOMAIN speaker_clips.candidates
    /\ Len(speaker_clips.candidates["A"]) = 2
    /\ speaker_clips.candidates["A"][1] # speaker_clips.candidates["A"][2]
    /\ speaker_clips.selected["A"] = 0
    /\ speaker_clips.returned = <<speaker_clips.candidates["A"][1]>>
    /\ speaker_clips.segments["A"] = speaker_clips.candidates["A"][1]

----------------------------------------------------------------------------
(* SpecThreads: SpecPersist with a request served off the event loop.  The  *)
(* endpoints defined with `def` (delete_pipeline_job, update_settings,      *)
(* reorder_pipeline_queue, ...) are run in a worker thread, where           *)
(* asyncio.get_running_loop() raises RuntimeError.                          *)

\* _save_state with loop = None: the caller runs _write_state_payload itself,
\* whatever the save task is doing.
SaveStateNoLoop ==
    /\ writer.direct < MaxDirectWrites
    /\ writer' = [writer EXCEPT !.direct = @ + 1,
                                !.direct_used = Cardinality(registry')]
    /\ UNCHANGED <<save_task, save_pending>>

\* delete_pipeline_job: delete_job in the thread of the request, up to the
\* start of its write.
DeletePipelineJob(j) ==
    /\ constructed
    /\ j \in registry
    /\ registry' = registry \ {j}
    /\ queue_order_by_user' = [u \in Users |-> ListRemove(queue_order_by_user[u], j)]
    /\ running_by_user' = [u \in Users |-> running_by_user[u] \ {j}]
    /\ db_jobs' = Restrict(db_jobs, DOMAIN db_jobs \ {j})
    /\ SaveStateNoLoop
    /\ UNCHANGED <<constructed, speaker_clips, streams, objs, settings_by_user, task, future,
                   db_settings, db_queue, ret>>

\* The write of the request's thread ends: it has stored the state, or its
\* loop over the registry has raised (the registry changed size), which
\* _save_state swallows.
DirectWriteEnds ==
    /\ constructed
    /\ writer.direct > 0
    /\ writer' = [writer EXCEPT !.direct = @ - 1]
    /\ IF Cardinality(registry) = writer.direct_used
       THEN /\ db_jobs' = WrittenJobs
            /\ db_settings' = WrittenSettings
            /\ db_queue' = WrittenQueue
       ELSE UNCHANGED dbVars
    /\ UNCHANGED <<constructed, speaker_clips, streams, memVars, save_task, save_pending, ret>>

NextThreads ==
    \/ NextPersist
    \/ \E j \in PersistJobIds : DeletePipelineJob(j)
    \/ DirectWriteEnds

SpecThreads == Init /\ [][NextThreads]_vars

\* The runs of _write_state_payload in flight.
WritersInFlight == (IF writer.phase # "none" THEN 1 ELSE 0) + writer.direct

\* C36 as claimed: at most one write of the state is in flight at any time.
C36_AsClaimed == WritersInFlight <= 1

----------------------------------------------------------------------------
(* C37: a job deleted while it waits. *)

\* C37 as claimed: a job that delete_job has taken out of the registry is
\* never added to a running set afterwards, and its task never starts the
\* pipeline run.
C37_AsClaimed ==
    [][\A j \in DOMAIN objs :
          j \notin registry =>
              /\ \A u \in Users :
                    j \in running_by_user'[u] => j \in running_by_user[u]
              /\ task'[j] = "run" => task[j] = "run"]_vars

----------------------------------------------------------------------------
(* C38: one subscriber. *)

\* C38 as claimed: the items the only stream of a job has delivered are
\* events of the run in emission order, none of them twice.
C38_AsClaimed ==
    \A s \in DOMAIN streams :
        DOMAIN streams = {s} =>
            \A i, k \in DOMAIN streams[s].received :
                i < k => streams[s].received[i].seq < streams[s].received[k].seq

----------------------------------------------------------------------------
(* C39: the slots of the jobs that have ended. *)

\* The task of job j is between its admission and its `finally` block.
InRun(j) == j \in DOMAIN task /\ task[j] \in {"run", "await", "resumed", "uploading"}

\* C39 as claimed: the id of a job whose task has finished is in no running
\* set and in no queue order, and a running set holds only ids of jobs whose
\* run has started and has not finished.
C39_AsClaimed ==
    constructed =>
        /\ \A j \in DOMAIN task :
              task[j] = "done" =>
                  \A u \in Users :
                      /\ j \notin running_by_user[u]
                      /\ j \notin Range(queue_order_by_user[u])
        /\ \A u \in Users : \A j \in running_by_user[u] : InRun(j)

----------------------------------------------------------------------------
(* C40: the wait for the manual speaker input. *)

\* The run of job j is suspended in `await speaker_future`.
AtSpeakerStep(j) == j \in DOMAIN task /\ task[j] = "await"

\* C40: a job that requires speaker input is completed only with
\* speaker_submitted set; while its run is suspended at the speaker step and
\* no input was submitted, the job is running and in its user's running set;
\* and the run leaves the speaker step only when the future is done, which
\* nothing but a successful submit_speakers brings about.
C40_SpeakerGate ==
    /\ [](\A j \in registry :
            /\ (objs[j].speaker_required /\ objs[j].status = "completed")
                    => objs[j].speaker_submitted
            /\ (AtSpeakerStep(j) /\ ~objs[j].speaker_submitted)
                    => /\ objs[j].status = "running"
                       /\ j \in running_by_user[objs[j].user_id]
                       /\ future[j] = "pending")
    /\ [][\A j \in DOMAIN task :
            /\ (AtSpeakerStep(j) /\ ~AtSpeakerStep(j)')
                    => future[j] = "done" /\ task'[j] = "resumed"
            /\ (future[j] = "pending" /\ future'[j] = "done")
                    => SubmitSpeakers(j) /\ ret' = "ok"]_vars

\* One job has been through the speaker step and is completed, its input
\* submitted; another one is suspended at the step, running and holding the
\* slot, with no input yet.
C40_Witness ==
    \E j \in registry, k \in registry :
        /\ objs[j].speaker_required /\ objs[j].status = "completed"
        /\ objs[j].speaker_submitted
        /\ objs[k].speaker_required /\ ~objs[k].speaker_submitted
        /\ AtSpeakerStep(k) /\ objs[k].status = "running"
        /\ k \in running_by_user[objs[k].user_id]

====
